---- MODULE Spec2Model ----
(***************************************************************************)
(* A model of the parsing core of etf_pipeline:                            *)
(*   - convert_numeric_value   (parsers/prospectus.py), run statement by   *)
(*     statement so that the order of its steps is observable;             *)
(*   - _parse_decimal and parse_financial_highlights_table                 *)
(*     (parsers/finhigh.py), including the math validation;                *)
(*   - the per-filer pass _process_cik_finhigh with its reconciliation of  *)
(*     a table to a class id and its "satisfied" set;                      *)
(*   - the per-filer pass _process_cik_ncsr (parsers/ncsr.py) with its     *)
(*     "satisfied" set.                                                    *)
(*                                                                         *)
(* Text is a sequence of one-character strings.  A Python None where a     *)
(* string is expected is the one-element sequence PyNone, which no text    *)
(* equals.  A decimal.Decimal is a record [k, s, c, e]: kind, sign bit,    *)
(* coefficient and exponent, the value being (-1)^s * c * 10^e.  The       *)
(* default decimal context carries 28 significant digits; every           *)
(* coefficient of this model is far shorter, so arithmetic is exact here.  *)
(***************************************************************************)
EXTENDS Integers, Sequences, FiniteSets, TLC

VARIABLES
    fn,      \* the call of one of the helper functions on one argument
    cv,      \* the activation of convert_numeric_value
    tp,      \* the activation of parse_financial_highlights_table
    mt,      \* the reconciliation of one table to a class id
    ps,      \* the activation of _process_cik_finhigh (one pass over one filer)
    np,      \* the activation of _process_cik_ncsr (one pass over one filer)
    store    \* the rows of the database session and what the last commit saved

vars == <<fn, cv, tp, mt, ps, np, store>>

-----------------------------------------------------------------------------
(* Text primitives                                                         *)

PyNone == <<"<None>">>

UpperChars == <<"A","B","C","D","E","F","G","H","I","J","K","L","M",
                "N","O","P","Q","R","S","T","U","V","W","X","Y","Z">>
LowerChars == <<"a","b","c","d","e","f","g","h","i","j","k","l","m",
                "n","o","p","q","r","s","t","u","v","w","x","y","z">>
DigitChars == <<"0","1","2","3","4","5","6","7","8","9">>

IsDigit(ch) == \E i \in 1..10 : DigitChars[i] = ch

DigitVal(ch) == (CHOOSE i \in 1..10 : DigitChars[i] = ch) - 1

\* str.lower() on one character
LowerChar(ch) ==
    IF \E i \in 1..26 : UpperChars[i] = ch
    THEN LowerChars[CHOOSE i \in 1..26 : UpperChars[i] = ch]
    ELSE ch

\* str.lower()
Lower(t) == [i \in 1..Len(t) |-> LowerChar(t[i])]

\* needle in hay
Contains(hay, needle) ==
    \E i \in 1..(Len(hay) - Len(needle) + 1) :
        SubSeq(hay, i, i + Len(needle) - 1) = needle

\* str.replace(ch, ""), for each ch of a set of characters
RECURSIVE RemoveChars(_, _)
RemoveChars(t, chars) ==
    IF t = <<>> THEN <<>>
    ELSE IF Head(t) \in chars THEN RemoveChars(Tail(t), chars)
    ELSE <<Head(t)>> \o RemoveChars(Tail(t), chars)

\* str.strip(): leading and trailing blanks removed
RECURSIVE StripLeft(_)
StripLeft(t) ==
    IF t # <<>> /\ Head(t) = " " THEN StripLeft(Tail(t)) ELSE t

RECURSIVE StripRight(_)
StripRight(t) ==
    IF t # <<>> /\ t[Len(t)] = " " THEN StripRight(SubSeq(t, 1, Len(t) - 1)) ELSE t

Strip(t) == StripRight(StripLeft(t))

\* the first index of t holding a character of chars, 0 when there is none
FirstIdx(t, chars) ==
    IF \E i \in 1..Len(t) : t[i] \in chars
    THEN CHOOSE i \in 1..Len(t) :
            /\ t[i] \in chars
            /\ \A j \in 1..(i - 1) : t[j] \notin chars
    ELSE 0

AllDigits(t) == \A i \in 1..Len(t) : IsDigit(t[i])

RECURSIVE DigitsToNat(_)
DigitsToNat(t) ==
    IF t = <<>> THEN 0
    ELSE DigitsToNat(SubSeq(t, 1, Len(t) - 1)) * 10 + DigitVal(t[Len(t)])

RECURSIVE Pow10(_)
Pow10(n) == IF n <= 0 THEN 1 ELSE 10 * Pow10(n - 1)

-----------------------------------------------------------------------------
(* decimal.Decimal                                                         *)

Null == [k |-> "null", s |-> 0, c |-> 0, e |-> 0]      \* Python None
Fin(s, c, e) == [k |-> "fin", s |-> s, c |-> c, e |-> e]
Inf(s) == [k |-> "inf", s |-> s, c |-> 0, e |-> 0]
NaN == [k |-> "nan", s |-> 0, c |-> 0, e |-> 0]        \* quiet NaN
SNaN == [k |-> "snan", s |-> 0, c |-> 0, e |-> 0]      \* signaling NaN
\* the outcome of an operation that signals decimal.InvalidOperation (trapped by
\* the default context, so the operation raises)
Signal == [k |-> "signal", s |-> 0, c |-> 0, e |-> 0]

DecZero == Fin(0, 0, 0)

\* Decimal(text): the constructor's grammar,
\*   [sign] (digits [. digits] | . digits) [E [sign] digits] | [sign] Inf[inity]
\*   | [sign] [s]NaN[digits],  case-insensitive, surrounding blanks ignored;
\* anything else signals InvalidOperation.
DecimalOfString(t0) ==
    LET Number(sgn, ei, ip, fp, eneg, edig) ==
            IF /\ AllDigits(ip) /\ AllDigits(fp) /\ Len(ip) + Len(fp) >= 1
               /\ (ei = 0 \/ (Len(edig) >= 1 /\ AllDigits(edig)))
            THEN Fin(sgn, DigitsToNat(ip \o fp),
                     (IF ei = 0 THEN 0
                      ELSE IF eneg THEN 0 - DigitsToNat(edig) ELSE DigitsToNat(edig))
                     - Len(fp))
            ELSE Signal
        Parts(sgn, ei, mant, di, expo) ==
            Number(sgn, ei,
                   IF di = 0 THEN mant ELSE SubSeq(mant, 1, di - 1),
                   IF di = 0 THEN <<>> ELSE SubSeq(mant, di + 1, Len(mant)),
                   expo # <<>> /\ expo[1] = "-",
                   IF expo # <<>> /\ expo[1] \in {"+", "-"} THEN Tail(expo) ELSE expo)
        Split(sgn, low, ei) ==
            Parts(sgn, ei,
                  IF ei = 0 THEN low ELSE SubSeq(low, 1, ei - 1),
                  IF ei = 0 THEN FirstIdx(low, {"."})
                  ELSE FirstIdx(SubSeq(low, 1, ei - 1), {"."}),
                  IF ei = 0 THEN <<>> ELSE SubSeq(low, ei + 1, Len(low)))
        Literal(sgn, low) ==
            IF low \in {<<"i","n","f">>, <<"i","n","f","i","n","i","t","y">>} THEN Inf(sgn)
            ELSE IF Len(low) >= 3 /\ SubSeq(low, 1, 3) = <<"n","a","n">>
                    /\ AllDigits(SubSeq(low, 4, Len(low))) THEN NaN
            ELSE IF Len(low) >= 4 /\ SubSeq(low, 1, 4) = <<"s","n","a","n">>
                    /\ AllDigits(SubSeq(low, 5, Len(low))) THEN SNaN
            ELSE Split(sgn, low, FirstIdx(low, {"e"}))
        Signed(t) ==
            Literal(IF t # <<>> /\ t[1] = "-" THEN 1 ELSE 0,
                    Lower(IF t # <<>> /\ t[1] \in {"+", "-"} THEN Tail(t) ELSE t))
    IN  Signed(Strip(t0))

\* -d (Decimal.__neg__): a zero comes back positive, a signaling NaN raises
DecNeg(d) ==
    CASE d.k = "fin"  -> IF d.c = 0 THEN Fin(0, 0, d.e) ELSE Fin(1 - d.s, d.c, d.e)
      [] d.k = "inf"  -> Inf(1 - d.s)
      [] d.k = "snan" -> Signal
      [] OTHER        -> d

\* Decimal('10') ** n
DecPow10(n) == IF n >= 0 THEN Fin(0, Pow10(n), 0) ELSE Fin(0, 1, n)

\* a * b (Decimal.__mul__)
DecMul(a, b) ==
    CASE a.k = "signal" \/ b.k = "signal" -> Signal
      [] a.k = "snan" \/ b.k = "snan"     -> Signal
      [] a.k = "nan" \/ b.k = "nan"       -> NaN
      [] a.k = "inf" /\ b.k = "inf"       -> Inf((a.s + b.s) % 2)
      [] a.k = "inf"                      ->
            IF b.c = 0 THEN Signal ELSE Inf((a.s + b.s) % 2)
      [] b.k = "inf"                      ->
            IF a.c = 0 THEN Signal ELSE Inf((a.s + b.s) % 2)
      [] OTHER                            -> Fin((a.s + b.s) % 2, a.c * b.c, a.e + b.e)

\* d / 100 (Decimal.__truediv__ by a power of ten: exact, with the exponent as
\* close to d's as the coefficient allows)
DecDiv100(d) ==
    CASE d.k = "fin" /\ d.c % 100 = 0 -> Fin(d.s, d.c \div 100, d.e)
      [] d.k = "fin" /\ d.c % 100 # 0 /\ d.c % 10 = 0 -> Fin(d.s, d.c \div 10, d.e - 1)
      [] d.k = "fin" /\ d.c % 10 # 0 -> Fin(d.s, d.c, d.e - 2)
      [] d.k = "snan" -> Signal
      [] OTHER        -> d

\* the signed coefficient of a finite d at exponent e0 <= d.e
CoefAt(d, e0) == (IF d.s = 1 THEN 0 - d.c ELSE d.c) * Pow10(d.e - e0)

MinOf(a, b) == IF a <= b THEN a ELSE b

OfSigned(n, e) == IF n < 0 THEN Fin(1, 0 - n, e) ELSE Fin(0, n, e)

\* a + b (Decimal.__add__)
DecAdd(a, b) ==
    CASE a.k = "signal" \/ b.k = "signal" -> Signal
      [] a.k = "snan" \/ b.k = "snan"     -> Signal
      [] a.k = "nan" \/ b.k = "nan"       -> NaN
      [] a.k = "inf" /\ b.k = "inf"       -> IF a.s = b.s THEN a ELSE Signal
      [] a.k = "inf"                      -> a
      [] b.k = "inf"                      -> b
      [] OTHER                            ->
            LET e0 == MinOf(a.e, b.e)
            IN  OfSigned(CoefAt(a, e0) + CoefAt(b, e0), e0)

\* a - b (Decimal.__sub__)
DecSub(a, b) ==
    CASE b.k \in {"fin", "inf"} -> DecAdd(a, [b EXCEPT !.s = 1 - b.s])
      [] OTHER                  -> DecAdd(a, b)

\* abs(d)
DecAbs(d) ==
    CASE d.k \in {"fin", "inf"} -> [d EXCEPT !.s = 0]
      [] d.k = "snan"           -> Signal
      [] OTHER                  -> d

\* a <= b and a < b on Decimals: "T", "F", or "signal" when a NaN is compared
DecCmp(a, b, strict) ==
    CASE a.k \in {"nan", "snan", "signal"} \/ b.k \in {"nan", "snan", "signal"} -> "signal"
      [] a.k = "inf" /\ b.k = "inf" ->
            IF (a.s = 1 /\ b.s = 0) \/ (~strict /\ a.s = b.s) THEN "T" ELSE "F"
      [] a.k = "inf" -> IF a.s = 1 THEN "T" ELSE "F"
      [] b.k = "inf" -> IF b.s = 0 THEN "T" ELSE "F"
      [] OTHER ->
            LET e0 == MinOf(a.e, b.e)
                x  == CoefAt(a, e0)
                y  == CoefAt(b, e0)
            IN  IF x < y \/ (~strict /\ x = y) THEN "T" ELSE "F"

\* bool(d) (Decimal.__bool__): a special value or a non-zero coefficient
DecTruthy(d) == d.k # "null" /\ (d.k # "fin" \/ d.c # 0)

-----------------------------------------------------------------------------
(* convert_numeric_value (parsers/prospectus.py)                           *)

\* the em dash and the en dash, each one character of a text
EmDash == "&mdash;"
EnDash == "&ndash;"

\* int(text): blanks stripped, an optional sign, then digits only
IntOfString(t0) ==
    LET t    == Strip(t0)
        body == IF t # <<>> /\ t[1] \in {"+", "-"} THEN Tail(t) ELSE t
        n    == DigitsToNat(body)
    IN  IF body # <<>> /\ AllDigits(body)
        THEN [ok |-> TRUE, n |-> IF t[1] = "-" THEN 0 - n ELSE n]
        ELSE [ok |-> FALSE, n |-> 0]

\* the format transformations: a "numwordsen" format turns the words None and N/A
\* into None, a "zerodash" format turns a dash or an empty text into Decimal('0')
FormatLiteralWordsAsZero(text, fmt) ==
    IF fmt # PyNone /\ fmt # <<>>
       /\ Contains(Lower(fmt), <<"n","u","m","w","o","r","d","s","e","n">>)
       /\ Lower(text) \in {<<"n","o","n","e">>, <<"n","/","a">>}
    THEN [hit |-> TRUE, value |-> DecZero]
    ELSE IF fmt # PyNone /\ fmt # <<>>
            /\ Contains(Lower(fmt), <<"z","e","r","o","d","a","s","h">>)
            /\ text \in {<<EmDash>>, <<"-">>, <<EnDash>>, <<>>}
    THEN [hit |-> TRUE, value |-> DecZero]
    ELSE [hit |-> FALSE, value |-> Null]

FormatLiteralDashAsNull(text, fmt) ==
    IF fmt # PyNone /\ fmt # <<>>
       /\ Contains(Lower(fmt), <<"n","u","m","w","o","r","d","s","e","n">>)
       /\ Lower(text) \in {<<"n","o","n","e">>, <<"n","/","a">>}
    THEN [hit |-> TRUE, value |-> Null]
    ELSE IF fmt # PyNone /\ fmt # <<>>
            /\ Contains(Lower(fmt), <<"z","e","r","o","d","a","s","h">>)
            /\ text \in {<<EmDash>>, <<"-">>, <<EnDash>>, <<>>}
    THEN [hit |-> TRUE, value |-> Null]
    ELSE [hit |-> FALSE, value |-> Null]

FormatLiteral(text, fmt) ==
    IF fmt # PyNone /\ fmt # <<>>
       /\ Contains(Lower(fmt), <<"n","u","m","w","o","r","d","s","e","n">>)
       /\ Lower(text) \in {<<"n","o","n","e">>, <<"n","/","a">>}
    THEN [hit |-> TRUE, value |-> Null]
    ELSE IF fmt # PyNone /\ fmt # <<>>
            /\ Contains(Lower(fmt), <<"z","e","r","o","d","a","s","h">>)
            /\ text \in {<<EmDash>>, <<"-">>, <<EnDash>>, <<>>}
    THEN [hit |-> TRUE, value |-> DecZero]
    ELSE [hit |-> FALSE, value |-> Null]

\* commas, dollar signs and percent signs removed
CleanText(text) == RemoveChars(text, {",", "$", "%"})

\* "not clean_text or clean_text in ('—', '-', '–')"
BlankOrDash(clean) == clean \in {<<>>, <<EmDash>>, <<"-">>, <<EnDash>>}

\* "if sign == '-': value = -value"
ApplySign(value, sign) == IF sign = <<"-">> THEN DecNeg(value) ELSE value

\* "if scale:" then value * 10 ** int(scale); a scale that is no integer is
\* logged and the value is left as it is
ApplyScaleInverted(value, scale) ==
    IF scale # PyNone /\ scale # <<>> /\ IntOfString(scale).ok
    THEN DecMul(value, DecPow10(0 - IntOfString(scale).n))
    ELSE value

ApplyScale(value, scale) ==
    IF scale # PyNone /\ scale # <<>> /\ IntOfString(scale).ok
    THEN DecMul(value, DecPow10(IntOfString(scale).n))
    ELSE value

\* whether ApplyScale multiplies
ScaleApplies(scale) == scale # PyNone /\ scale # <<>> /\ IntOfString(scale).ok

\* "if negate_to_positive and value < 0: value = -value"
NegateToPositiveOfPositive(value, neg) ==
    IF ~neg THEN value
    ELSE IF DecCmp(DecZero, value, TRUE) = "signal" THEN Signal
    ELSE IF DecCmp(DecZero, value, TRUE) = "T" THEN DecNeg(value)
    ELSE value

NegateToPositive(value, neg) ==
    IF ~neg THEN value
    ELSE IF DecCmp(value, DecZero, TRUE) = "signal" THEN Signal
    ELSE IF DecCmp(value, DecZero, TRUE) = "T" THEN DecNeg(value)
    ELSE value

\* the statements of convert_numeric_value in program order: the statement that
\* follows each one when it neither returns nor raises
ConvAfterNegateFirst(stage) ==
    CASE stage = "enter"  -> "format"
      [] stage = "format" -> "clean"
      [] stage = "clean"  -> "parse"
      [] stage = "parse"  -> "negate"
      [] stage = "negate" -> "sign"
      [] stage = "sign"   -> "scale"
      [] OTHER            -> "return"

ConvAfter(stage) ==
    CASE stage = "enter"  -> "format"
      [] stage = "format" -> "clean"
      [] stage = "clean"  -> "parse"
      [] stage = "parse"  -> "sign"
      [] stage = "sign"   -> "scale"
      [] stage = "scale"  -> "negate"
      [] OTHER            -> "return"

\* the longest free text of an element, and the largest |scale|
MaxTextLen == 3
MaxScale == 2

ConvAlphabet == {"7", ".", "-"}

RECURSIVE TextsUpTo(_, _)
TextsUpTo(alphabet, n) ==
    IF n = 0 THEN {<<>>}
    ELSE LET shorter == TextsUpTo(alphabet, n - 1)
         IN  shorter \cup {Append(t, ch) : t \in shorter, ch \in alphabet}

ConvNamedTexts ==
    { <<"N","o","n","e">>, <<"n","o","n","e">>, <<"N","O","N","E">>,
      <<"N","/","A">>, <<"n","/","a">>,
      <<EmDash>>, <<EnDash>>,
      <<"0">>, <<"-","0">>, <<"0",".","7","0">>, <<"2",".","0","0">>,
      <<"1",",","2","2","3">>, <<"$","7">>, <<"7","%">>, <<" ","7"," ">>,
      <<"(","7",")">>, <<"7","E","-","1">>,
      <<"N","a","N">>, <<"s","N","a","N">>,
      <<"I","n","f","i","n","i","t","y">>, <<"-","I","n","f">> }

ConvTexts == TextsUpTo(ConvAlphabet, MaxTextLen) \cup ConvNamedTexts

\* str(n)
NatText(n) == IF n < 10 THEN <<DigitChars[n + 1]>>
              ELSE <<DigitChars[(n \div 10) + 1], DigitChars[(n % 10) + 1]>>

IntText(n) == IF n < 0 THEN <<"-">> \o NatText(0 - n) ELSE NatText(n)

\* the scale attribute: absent, empty, an integer, or no integer at all
ConvScales == {PyNone, <<>>, <<"x">>} \cup {IntText(n) : n \in (0 - MaxScale)..MaxScale}

ConvFormats ==
    { PyNone,
      <<"i","x","t","-","s","e","c",":","n","u","m","w","o","r","d","s","e","n">>,
      <<"i","x","t",":","z","e","r","o","d","a","s","h">>,
      <<"i","x","t",":","n","u","m","d","o","t","d","e","c","i","m","a","l">> }

ConvSigns == {PyNone, <<"-">>}

\* a call of convert_numeric_value about to execute its first statement
ConvCall(el, scale, fmt, sign, neg) ==
    [ pc |-> "enter", el |-> el, scale |-> scale, fmt |-> fmt, sign |-> sign,
      neg |-> neg, text |-> <<>>, clean |-> <<>>, value |-> Null,
      steps |-> <<>>, result |-> Null, raised |-> "none" ]

ConvIdle ==
    [ pc |-> "idle", el |-> PyNone, scale |-> PyNone, fmt |-> PyNone, sign |-> PyNone,
      neg |-> FALSE, text |-> <<>>, clean |-> <<>>, value |-> Null,
      steps |-> <<>>, result |-> Null, raised |-> "none" ]

ConvReturn(c, stage, result) ==
    [c EXCEPT !.pc = "done", !.steps = Append(@, stage), !.result = result]

ConvRaise(c, stage) ==
    [c EXCEPT !.pc = "done", !.steps = Append(@, stage), !.raised = "InvalidOperation"]

ConvGoOn(c, stage) == [c EXCEPT !.pc = ConvAfter(stage), !.steps = Append(@, stage)]

\* "if element is None: return None" and "text = element.get_text().strip()"
CnvEnter ==
    /\ cv.pc = "enter"
    /\ cv' = IF cv.el = PyNone
             THEN ConvReturn(cv, "enter", Null)
             ELSE [ConvGoOn(cv, "enter") EXCEPT !.text = Strip(cv.el)]
    /\ UNCHANGED <<fn, tp, mt, ps, np, store>>

\* "if format_attr:" ... return None / return Decimal('0')
CnvFormat ==
    /\ cv.pc = "format"
    /\ cv' = IF FormatLiteral(cv.text, cv.fmt).hit
             THEN ConvReturn(cv, "format", FormatLiteral(cv.text, cv.fmt).value)
             ELSE ConvGoOn(cv, "format")
    /\ UNCHANGED <<fn, tp, mt, ps, np, store>>

\* "clean_text = ..." and "if not clean_text or clean_text in (...): return None"
CnvClean ==
    /\ cv.pc = "clean"
    /\ cv' = IF BlankOrDash(CleanText(cv.text))
             THEN [ConvReturn(cv, "clean", Null) EXCEPT !.clean = CleanText(cv.text)]
             ELSE [ConvGoOn(cv, "clean") EXCEPT !.clean = CleanText(cv.text)]
    /\ UNCHANGED <<fn, tp, mt, ps, np, store>>

\* "try: value = Decimal(clean_text) except (ValueError, InvalidOperation): return None"
CnvParse ==
    /\ cv.pc = "parse"
    /\ cv' = IF DecimalOfString(cv.clean).k = "signal"
             THEN ConvReturn(cv, "parse", Null)
             ELSE [ConvGoOn(cv, "parse") EXCEPT !.value = DecimalOfString(cv.clean)]
    /\ UNCHANGED <<fn, tp, mt, ps, np, store>>

\* "if sign == '-': value = -value"
CnvSign ==
    /\ cv.pc = "sign"
    /\ cv' = IF ApplySign(cv.value, cv.sign).k = "signal"
             THEN ConvRaise(cv, "sign")
             ELSE [ConvGoOn(cv, "sign") EXCEPT !.value = ApplySign(cv.value, cv.sign)]
    /\ UNCHANGED <<fn, tp, mt, ps, np, store>>

\* "if scale: try: value = value * (Decimal('10') ** int(scale)) except ValueError"
CnvScale ==
    /\ cv.pc = "scale"
    /\ cv' = IF ApplyScale(cv.value, cv.scale).k = "signal"
             THEN ConvRaise(cv, "scale")
             ELSE [ConvGoOn(cv, "scale") EXCEPT !.value = ApplyScale(cv.value, cv.scale)]
    /\ UNCHANGED <<fn, tp, mt, ps, np, store>>

\* "if negate_to_positive and value < 0: value = -value"
CnvNegate ==
    /\ cv.pc = "negate"
    /\ cv' = IF NegateToPositive(cv.value, cv.neg).k = "signal"
             THEN ConvRaise(cv, "negate")
             ELSE [ConvGoOn(cv, "negate") EXCEPT
                      !.value = NegateToPositive(cv.value, cv.neg)]
    /\ UNCHANGED <<fn, tp, mt, ps, np, store>>

\* "return value"
CnvReturn ==
    /\ cv.pc = "return"
    /\ cv' = ConvReturn(cv, "return", cv.value)
    /\ UNCHANGED <<fn, tp, mt, ps, np, store>>

-----------------------------------------------------------------------------
(* _parse_decimal and _parse_date (parsers/finhigh.py)                     *)

\* _parse_decimal: None, an empty text, a dash and N/A give None; a percent sign
\* divides by 100; enclosing parentheses negate; dollar signs and commas are
\* dropped; whatever Decimal() or the arithmetic rejects gives None
ParseDecimalKeepsSign(value) ==
    LET Result(d, d2) == IF d.k = "signal" \/ d2.k = "signal" THEN Null ELSE d2
        Number(pct, d) == Result(d, IF pct THEN DecDiv100(d) ELSE d)
        Signed(pct, s1, neg) ==
            Number(pct, DecimalOfString(RemoveChars(
                IF neg THEN SubSeq(s1, 2, Len(s1) - 1) ELSE s1, {"$", ","})))
        Percent(pct, s1) ==
            Signed(pct, s1, Len(s1) >= 1 /\ s1[1] = "(" /\ s1[Len(s1)] = ")")
        Stripped(s) ==
            IF s \in {<<>>, <<"-">>, <<EmDash>>, <<"N","/","A">>, <<"n","/","a">>} THEN Null
            ELSE Percent(\E i \in 1..Len(s) : s[i] = "%", RemoveChars(s, {"%"}))
    IN  IF value = PyNone THEN Null ELSE Stripped(Strip(value))

\* only the dollar signs are removed
ParseDecimalKeepsCommas(value) ==
    LET Result(d, d1, d2) ==
            IF d.k = "signal" \/ d1.k = "signal" \/ d2.k = "signal" THEN Null ELSE d2
        Negated(pct, d, d1) == Result(d, d1, IF pct THEN DecDiv100(d1) ELSE d1)
        Number(pct, neg, d) == Negated(pct, d, IF neg THEN DecNeg(d) ELSE d)
        Signed(pct, s1, neg) ==
            Number(pct, neg, DecimalOfString(RemoveChars(
                IF neg THEN SubSeq(s1, 2, Len(s1) - 1) ELSE s1, {"$"})))
        Percent(pct, s1) ==
            Signed(pct, s1, Len(s1) >= 1 /\ s1[1] = "(" /\ s1[Len(s1)] = ")")
        Stripped(s) ==
            IF s \in {<<>>, <<"-">>, <<EmDash>>, <<"N","/","A">>, <<"n","/","a">>} THEN Null
            ELSE Percent(\E i \in 1..Len(s) : s[i] = "%", RemoveChars(s, {"%"}))
    IN  IF value = PyNone THEN Null ELSE Stripped(Strip(value))

ParseDecimal(value) ==
    LET Result(d, d1, d2) ==
            IF d.k = "signal" \/ d1.k = "signal" \/ d2.k = "signal" THEN Null ELSE d2
        Negated(pct, d, d1) == Result(d, d1, IF pct THEN DecDiv100(d1) ELSE d1)
        Number(pct, neg, d) == Negated(pct, d, IF neg THEN DecNeg(d) ELSE d)
        Signed(pct, s1, neg) ==
            Number(pct, neg, DecimalOfString(RemoveChars(
                IF neg THEN SubSeq(s1, 2, Len(s1) - 1) ELSE s1, {"$", ","})))
        Percent(pct, s1) ==
            Signed(pct, s1, Len(s1) >= 1 /\ s1[1] = "(" /\ s1[Len(s1)] = ")")
        Stripped(s) ==
            IF s \in {<<>>, <<"-">>, <<EmDash>>, <<"N","/","A">>, <<"n","/","a">>} THEN Null
            ELSE Percent(\E i \in 1..Len(s) : s[i] = "%", RemoveChars(s, {"%"}))
    IN  IF value = PyNone THEN Null ELSE Stripped(Strip(value))

\* a calendar date, or no date
NoDate == [y |-> 0, m |-> 0, d |-> 0]
Date(y, m, d) == [y |-> y, m |-> m, d |-> d]

IsLeap(y) == (y % 4 = 0 /\ y % 100 # 0) \/ y % 400 = 0

DaysInMonth(y, m) ==
    IF m = 2 THEN (IF IsLeap(y) THEN 29 ELSE 28)
    ELSE IF m \in {4, 6, 9, 11} THEN 30 ELSE 31

\* strptime's %m: 1..9, 01..09, 10..12
MonthOfText(t) ==
    IF Len(t) \in {1, 2} /\ AllDigits(t) /\ DigitsToNat(t) \in 1..12 THEN DigitsToNat(t) ELSE 0

\* strptime's %d: 1..9, 01..09, 10..31, or a blank and 1..9
DayOfText(t) ==
    IF Len(t) \in {1, 2} /\ AllDigits(t) /\ DigitsToNat(t) \in 1..31 THEN DigitsToNat(t)
    ELSE IF Len(t) = 2 /\ t[1] = " " /\ IsDigit(t[2]) /\ t[2] # "0" THEN DigitVal(t[2])
    ELSE 0

\* strptime's %Y: four digits
YearOfText(t) == IF Len(t) = 4 /\ AllDigits(t) THEN DigitsToNat(t) ELSE 0

\* datetime(y, m, d).date(), or NoDate where strptime raises ValueError
DateOfParts(y, m, d) ==
    IF y >= 1 /\ m >= 1 /\ d >= 1 /\ d <= DaysInMonth(y, m) THEN Date(y, m, d) ELSE NoDate

MonthNames ==
    << <<"j","a","n","u","a","r","y">>,
       <<"f","e","b","r","u","a","r","y">>,
       <<"m","a","r","c","h">>,
       <<"a","p","r","i","l">>,
       <<"m","a","y">>,
       <<"j","u","n","e">>,
       <<"j","u","l","y">>,
       <<"a","u","g","u","s","t">>,
       <<"s","e","p","t","e","m","b","e","r">>,
       <<"o","c","t","o","b","e","r">>,
       <<"n","o","v","e","m","b","e","r">>,
       <<"d","e","c","e","m","b","e","r">> >>

MonthAbbrs ==
    << <<"j","a","n">>,
       <<"f","e","b">>,
       <<"m","a","r">>,
       <<"a","p","r">>,
       <<"m","a","y">>,
       <<"j","u","n">>,
       <<"j","u","l">>,
       <<"a","u","g">>,
       <<"s","e","p">>,
       <<"o","c","t">>,
       <<"n","o","v">>,
       <<"d","e","c">> >>

\* strptime's %B and %b, case-insensitive
MonthOfName(t, names) ==
    IF \E i \in 1..12 : names[i] = Lower(t)
    THEN CHOOSE i \in 1..12 : names[i] = Lower(t)
    ELSE 0

\* the pieces of t between the occurrences of the character sep
RECURSIVE SplitOn(_, _)
SplitOn(t, sep) ==
    IF FirstIdx(t, {sep}) = 0 THEN <<t>>
    ELSE <<SubSeq(t, 1, FirstIdx(t, {sep}) - 1)>>
            \o SplitOn(SubSeq(t, FirstIdx(t, {sep}) + 1, Len(t)), sep)

\* "%m/%d/%Y"
DateOfSlashText(t) ==
    LET p == SplitOn(t, "/")
    IN  IF Len(p) = 3
        THEN DateOfParts(YearOfText(p[3]), MonthOfText(p[1]), DayOfText(p[2]))
        ELSE NoDate

\* "%Y-%m-%d"
DateOfIsoText(t) ==
    LET p == SplitOn(t, "-")
    IN  IF Len(p) = 3
        THEN DateOfParts(YearOfText(p[1]), MonthOfText(p[2]), DayOfText(p[3]))
        ELSE NoDate

\* "%B %d, %Y" and "%b %d, %Y": a month name, blanks, the day, a comma, blanks,
\* the year
DateOfNameText(t, names) ==
    LET c    == FirstIdx(t, {","})
        left == IF c = 0 THEN <<>> ELSE SubSeq(t, 1, c - 1)
        rest == IF c = 0 THEN <<>> ELSE SubSeq(t, c + 1, Len(t))
        b    == FirstIdx(left, {" "})
        name == IF b = 0 THEN <<>> ELSE SubSeq(left, 1, b - 1)
        day  == IF b = 0 THEN <<>> ELSE StripLeft(SubSeq(left, b + 1, Len(left)))
        year == StripLeft(rest)
    IN  IF c # 0 /\ b # 0 /\ rest # <<>> /\ rest[1] = " "
        THEN DateOfParts(YearOfText(year), MonthOfName(name, names), DayOfText(day))
        ELSE NoDate

\* _parse_date: the first of the four formats that accepts the text
ParseDate(value) ==
    LET s == Strip(value)
    IN  IF value = PyNone \/ value = <<>> THEN NoDate
        ELSE IF DateOfSlashText(s) # NoDate THEN DateOfSlashText(s)
        ELSE IF DateOfIsoText(s) # NoDate THEN DateOfIsoText(s)
        ELSE IF DateOfNameText(s, MonthNames) # NoDate THEN DateOfNameText(s, MonthNames)
        ELSE DateOfNameText(s, MonthAbbrs)


-----------------------------------------------------------------------------
(* parse_financial_highlights_table (parsers/finhigh.py)                   *)

\* A table is a sequence of rows (its tr elements), a row the sequence of the texts
\* of its cells (td or th).  The text of a row is the texts of its cells in order.

\* "if len(rows) < 10: raise ValueError"
MIN_ROWS == 10

\* the rows scanned for the fiscal year end: "range(min(5, len(rows)))"
DATE_ROWS == 5

CharAt(t, i) == IF i \in 1..Len(t) THEN t[i] ELSE ""

IsWordChar(ch) ==
    \/ IsDigit(ch)
    \/ ch = "_"
    \/ \E i \in 1..26 : UpperChars[i] = ch \/ LowerChars[i] = ch

\* the length of the match of \d{1,2} followed by "/" at index i, 0 for no match
NumSlashAt(t, i) ==
    IF IsDigit(CharAt(t, i)) /\ IsDigit(CharAt(t, i + 1)) /\ CharAt(t, i + 2) = "/" THEN 2
    ELSE IF IsDigit(CharAt(t, i)) /\ CharAt(t, i + 1) = "/" THEN 1
    ELSE 0

\* the end of the match of \d{1,2}/\d{1,2}/\d{4} starting at index i, 0 for no match
SlashDateEnd(t, i) ==
    LET a == NumSlashAt(t, i)
        j == i + a + 1
        b == NumSlashAt(t, j)
        k == j + b + 1
    IN  IF a > 0 /\ b > 0 /\ \A n \in 0..3 : IsDigit(CharAt(t, k + n))
        THEN k + 3 ELSE 0

\* re.search(r'(\d{1,2}/\d{1,2}/\d{4})', t): the leftmost match, or None
SlashDateSearch(t) ==
    IF \E i \in 1..Len(t) : SlashDateEnd(t, i) # 0
    THEN LET i == CHOOSE i \in 1..Len(t) :
                    /\ SlashDateEnd(t, i) # 0
                    /\ \A j \in 1..(i - 1) : SlashDateEnd(t, j) = 0
         IN  SubSeq(t, i, SlashDateEnd(t, i))
    ELSE PyNone

\* the first index from i on that holds no blank
RECURSIVE SkipBlanks(_, _)
SkipBlanks(t, i) == IF CharAt(t, i) = " " THEN SkipBlanks(t, i + 1) ELSE i

\* the first index from i on that holds no word character
RECURSIVE SkipWord(_, _)
SkipWord(t, i) == IF IsWordChar(CharAt(t, i)) THEN SkipWord(t, i + 1) ELSE i

\* the group of r'year ended\s+(\w+ \d{1,2})' matched at index i, or None
YearEndedAt(t, i) ==
    LET j == i + 10
        w == SkipBlanks(t, j)
        x == SkipWord(t, w)
        n == IF IsDigit(CharAt(t, x + 2)) THEN 2 ELSE 1
    IN  IF /\ SubSeq(Lower(t), i, i + 9) = <<"y","e","a","r"," ","e","n","d","e","d">>
           /\ w > j /\ x > w
           /\ CharAt(t, x) = " " /\ IsDigit(CharAt(t, x + 1))
        THEN SubSeq(t, w, x + n)
        ELSE PyNone

\* re.search(r'year ended\s+(\w+ \d{1,2})', t, re.IGNORECASE).group(1), or None
YearEndedSearch(t) ==
    IF \E i \in 1..(Len(t) - 9) : YearEndedAt(t, i) # PyNone
    THEN YearEndedAt(t, CHOOSE i \in 1..(Len(t) - 9) :
                          /\ YearEndedAt(t, i) # PyNone
                          /\ \A j \in 1..(i - 1) : YearEndedAt(t, j) = PyNone)
    ELSE PyNone

\* re.search(r'\d{4}', t).group(0), or None
FourDigits(t) ==
    IF \E i \in 1..(Len(t) - 3) : AllDigits(SubSeq(t, i, i + 3))
    THEN LET i == CHOOSE i \in 1..(Len(t) - 3) :
                    /\ AllDigits(SubSeq(t, i, i + 3))
                    /\ \A j \in 1..(i - 1) : ~AllDigits(SubSeq(t, j, j + 3))
         IN  SubSeq(t, i, i + 3)
    ELSE PyNone

\* the year of the first cell of a row that holds four digits in a row, or None
RECURSIVE FirstYearIn(_)
FirstYearIn(cells) ==
    IF cells = <<>> THEN PyNone
    ELSE IF FourDigits(Strip(Head(cells))) # PyNone THEN FourDigits(Strip(Head(cells)))
    ELSE FirstYearIn(Tail(cells))

RECURSIVE RowText(_)
RowText(cells) == IF cells = <<>> THEN <<>> ELSE Head(cells) \o RowText(Tail(cells))

\* the date a "Year Ended <Month> <Day>" row i and the years of row i + 1 give
YearEndedDate(rows, i) ==
    LET md   == YearEndedSearch(RowText(rows[i]))
        year == IF i + 1 <= Len(rows) THEN FirstYearIn(rows[i + 1]) ELSE PyNone
    IN  IF Contains(Lower(RowText(rows[i])), <<"y","e","a","r"," ","e","n","d","e","d">>) /\ md # PyNone /\ year # PyNone
        THEN ParseDate(md \o <<",", " ">> \o year)
        ELSE NoDate

\* the loop over the first five rows: a slash date ends the scan whether or not it
\* parses; a "year ended" row ends it when it yields a date
RECURSIVE FiscalYearEndFrom(_, _)
FiscalYearEndFrom(rows, i) ==
    IF i > Len(rows) \/ i > DATE_ROWS THEN NoDate
    ELSE IF SlashDateSearch(RowText(rows[i])) # PyNone
         THEN ParseDate(SlashDateSearch(RowText(rows[i])))
    ELSE IF YearEndedDate(rows, i) # NoDate THEN YearEndedDate(rows, i)
    ELSE FiscalYearEndFrom(rows, i + 1)

\* get_row_label: the first cell, stripped and lower-cased
RowLabel(cells) == IF cells = <<>> THEN <<>> ELSE Lower(Strip(cells[1]))

\* get_value(row_idx): the second cell, stripped, or None
GetValue(rows, idx) ==
    IF idx < 1 \/ idx > Len(rows) THEN PyNone
    ELSE IF Len(rows[idx]) < 2 THEN PyNone
    ELSE Strip(rows[idx][2])

Roles ==
    { "nav_end", "nav_beginning", "net_investment_income",
      "net_realized_unrealized_gain", "total_from_operations", "equalization",
      "dist_net_investment_income", "dist_realized_gains", "dist_return_of_capital",
      "dist_total", "total_return", "net_assets_end", "expense_ratio",
      "portfolio_turnover" }

\* the if/elif chain that gives a row its role, "none" when no branch matches
ClassifyLabel(label) ==
    LET Has(w) == Contains(label, w)
    IN  IF Has(<<"n","e","t"," ","a","s","s","e","t"," ","v","a","l","u","e">>) /\ Has(<<"e","n","d">>) THEN "nav_end"
        ELSE IF Has(<<"n","e","t"," ","a","s","s","e","t"," ","v","a","l","u","e">>) /\ Has(<<"b","e","g","i","n","n","i","n","g">>) THEN "nav_beginning"
        ELSE IF Has(<<"n","e","t"," ","i","n","v","e","s","t","m","e","n","t"," ","i","n","c","o","m","e">>) /\ ~Has(<<"r","a","t","i","o">>) /\ ~Has(<<"a","v","e","r","a","g","e">>)
                /\ ~Has(<<"d","i","v","i","d","e","n","d">>) THEN "net_investment_income"
        ELSE IF Has(<<"r","e","a","l","i","z","e","d">>) /\ Has(<<"u","n","r","e","a","l","i","z","e","d">>) /\ Has(<<"g","a","i","n">>)
             THEN "net_realized_unrealized_gain"
        ELSE IF Has(<<"t","o","t","a","l"," ","f","r","o","m"," ","i","n","v","e","s","t","m","e","n","t">>)
                \/ (Has(<<"t","o","t","a","l">>) /\ Has(<<"i","n","v","e","s","t","m","e","n","t"," ","o","p","e","r","a","t","i","o","n","s">>))
             THEN "total_from_operations"
        ELSE IF Has(<<"e","q","u","a","l","i","z","a","t","i","o","n">>) /\ ~Has(<<"n","e","t">>) THEN "equalization"
        ELSE IF (Has(<<"d","i","v","i","d","e","n","d">>) \/ Has(<<"d","i","s","t","r","i","b","u","t","i","o","n">>)) /\ Has(<<"n","e","t"," ","i","n","v","e","s","t","m","e","n","t"," ","i","n","c","o","m","e">>)
             THEN "dist_net_investment_income"
        ELSE IF Has(<<"d","i","s","t","r","i","b","u","t","i","o","n">>) /\ Has(<<"r","e","a","l","i","z","e","d">>)
                /\ (Has(<<"c","a","p","i","t","a","l"," ","g","a","i","n">>) \/ Has(<<"c","a","p","i","t","a","l"," ","g","a","i","n","s">>))
             THEN "dist_realized_gains"
        ELSE IF Has(<<"r","e","t","u","r","n"," ","o","f"," ","c","a","p","i","t","a","l">>) THEN "dist_return_of_capital"
        ELSE IF Has(<<"t","o","t","a","l"," ","d","i","s","t","r","i","b","u","t","i","o","n">>) THEN "dist_total"
        ELSE IF Has(<<"t","o","t","a","l"," ","r","e","t","u","r","n">>) /\ ~Has(<<"r","a","t","i","o">>) THEN "total_return"
        ELSE IF Has(<<"n","e","t"," ","a","s","s","e","t","s">>) /\ Has(<<"e","n","d">>) /\ Has(<<"m","i","l","l","i","o","n">>) THEN "net_assets_end"
        ELSE IF Has(<<"r","a","t","i","o">>) /\ Has(<<"e","x","p","e","n","s","e">>) THEN "expense_ratio"
        ELSE IF Has(<<"p","o","r","t","f","o","l","i","o"," ","t","u","r","n","o","v","e","r">>) THEN "portfolio_turnover"
        ELSE "none"

NoRowMap == [r \in Roles |-> 0]

\* row_map after the first n rows of the loop: a row that has a role takes the
\* role's entry, so the last row of a role keeps it
RECURSIVE RowMapUpTo(_, _)
RowMapUpTo(rows, n) ==
    IF n = 0 THEN NoRowMap
    ELSE LET role == ClassifyLabel(RowLabel(rows[n]))
         IN  IF role = "none" THEN RowMapUpTo(rows, n - 1)
             ELSE [RowMapUpTo(rows, n - 1) EXCEPT ![role] = n]

RowMap(rows) == RowMapUpTo(rows, Len(rows))

\* "_parse_decimal(get_value(row_map.get(role))) if role in row_map else None"
FieldValue(rows, rm, role) ==
    IF rm[role] = 0 THEN Null ELSE ParseDecimal(GetValue(rows, rm[role]))

\* net assets stated in millions are multiplied by 1,000,000
NetAssetsEnd(rows, rm) ==
    LET text == IF rm["net_assets_end"] = 0 THEN PyNone
                ELSE GetValue(rows, rm["net_assets_end"])
        v    == ParseDecimal(text)
    IN  IF text = PyNone \/ text = <<>> THEN Null
        ELSE IF DecTruthy(v) /\ Contains(RowLabel(rows[rm["net_assets_end"]]), <<"m","i","l","l","i","o","n">>)
        THEN DecMul(v, Fin(0, 1000000, 0))
        ELSE v

ValueFields ==
    { "nav_beginning", "net_investment_income", "net_realized_unrealized_gain",
      "total_from_operations", "equalization", "nav_end", "total_return",
      "dist_net_investment_income", "dist_realized_gains", "dist_return_of_capital",
      "dist_total", "expense_ratio", "portfolio_turnover", "net_assets_end" }

NoValues == [f \in ValueFields |-> Null]

\* the operating, distribution and ratios values of the result
ExtractValues(rows, rm) ==
    [f \in ValueFields |->
        IF f = "net_assets_end" THEN NetAssetsEnd(rows, rm) ELSE FieldValue(rows, rm, f)]

\* the math validation: "T" or "F", or "signal" when the arithmetic raises
MathValidatedNoEqualization(v) ==
    LET expected == DecAdd(DecAdd(v["nav_beginning"], v["total_from_operations"]),
                           v["dist_total"])
        disc     == DecAbs(DecSub(expected, v["nav_end"]))
    IN  IF \E f \in {"nav_beginning", "total_from_operations", "dist_total", "nav_end"} :
               v[f] = Null
        THEN "F"
        ELSE IF disc.k = "signal" THEN "signal"
        ELSE DecCmp(disc, Fin(0, 1, -2), FALSE)

MathValidated(v) ==
    LET eq       == IF DecTruthy(v["equalization"]) THEN v["equalization"] ELSE DecZero
        expected == DecAdd(DecAdd(DecAdd(v["nav_beginning"], v["total_from_operations"]),
                                  v["dist_total"]), eq)
        disc     == DecAbs(DecSub(expected, v["nav_end"]))
    IN  IF \E f \in {"nav_beginning", "total_from_operations", "dist_total", "nav_end"} :
               v[f] = Null
        THEN "F"
        ELSE IF disc.k = "signal" THEN "signal"
        ELSE DecCmp(disc, Fin(0, 1, -2), FALSE)

\* "if not table" and "if len(rows) < 10": the failure, "none" when there is none
PreconditionFailureOffByOne(hasTable, rows) ==
    IF ~hasTable THEN "NoTable"
    ELSE IF Len(rows) <= MIN_ROWS THEN "TooFewRows"
    ELSE "none"

PreconditionFailure(hasTable, rows) ==
    IF ~hasTable THEN "NoTable"
    ELSE IF Len(rows) < MIN_ROWS THEN "TooFewRows"
    ELSE "none"

TableCall(hasTable, rows) ==
    [ pc |-> "check", hasTable |-> hasTable, rows |-> rows, fye |-> NoDate,
      row_map |-> NoRowMap, values |-> NoValues, math_validated |-> FALSE,
      steps |-> <<>>, raised |-> "none" ]

TableIdle ==
    [ pc |-> "idle", hasTable |-> FALSE, rows |-> <<>>, fye |-> NoDate,
      row_map |-> NoRowMap, values |-> NoValues, math_validated |-> FALSE,
      steps |-> <<>>, raised |-> "none" ]

\* soup.find("table"), table.find_all("tr") and the two checks that raise ValueError
TblCheck ==
    /\ tp.pc = "check"
    /\ tp' = IF PreconditionFailure(tp.hasTable, tp.rows) # "none"
             THEN [tp EXCEPT !.pc = "raised", !.steps = Append(@, "check"),
                             !.raised = PreconditionFailure(tp.hasTable, tp.rows)]
             ELSE [tp EXCEPT !.pc = "date", !.steps = Append(@, "check")]
    /\ UNCHANGED <<fn, cv, mt, ps, np, store>>

\* the fiscal year end from the column headers
TblDate ==
    /\ tp.pc = "date"
    /\ tp' = [tp EXCEPT !.pc = "classify", !.steps = Append(@, "date"),
                        !.fye = FiscalYearEndFrom(tp.rows, 1)]
    /\ UNCHANGED <<fn, cv, mt, ps, np, store>>

\* the loop that fills row_map
TblClassify ==
    /\ tp.pc = "classify"
    /\ tp' = [tp EXCEPT !.pc = "extract", !.steps = Append(@, "classify"),
                        !.row_map = RowMap(tp.rows)]
    /\ UNCHANGED <<fn, cv, mt, ps, np, store>>

\* the values of the mapped rows; the multiplication of the net assets can raise
TblExtract ==
    /\ tp.pc = "extract"
    /\ tp' = IF NetAssetsEnd(tp.rows, tp.row_map).k = "signal"
             THEN [tp EXCEPT !.pc = "raised", !.steps = Append(@, "extract"),
                             !.raised = "InvalidOperation"]
             ELSE [tp EXCEPT !.pc = "validate", !.steps = Append(@, "extract"),
                             !.values = ExtractValues(tp.rows, tp.row_map)]
    /\ UNCHANGED <<fn, cv, mt, ps, np, store>>

\* the math validation and "return result"
TblValidate ==
    /\ tp.pc = "validate"
    /\ tp' = IF MathValidated(tp.values) = "signal"
             THEN [tp EXCEPT !.pc = "raised", !.steps = Append(@, "validate"),
                             !.raised = "InvalidOperation"]
             ELSE [tp EXCEPT !.pc = "done", !.steps = Append(@, "validate"),
                             !.math_validated = (MathValidated(tp.values) = "T")]
    /\ UNCHANGED <<fn, cv, mt, ps, np, store>>

\* The tables the parser is run on: the fourteen rows of a fund's table with a choice
\* of header rows and of the cells the validation reads, cut short by up to MaxCut
\* rows, and an input without a table.
MaxCut == 5

HeaderChoices ==
    { << <<<<"F","o","r"," ","a"," ","S","h","a","r","e"," ","O","u","t","s","t","a","n","d","i","n","g">>, <<"2","0","2","4">>>> >>,
      << <<<<"Y","e","a","r"," ","E","n","d","e","d"," ","1","2","/","3","1","/","2","0","2","4">>, <<>>>> >>,
      << <<<<"Y","e","a","r"," ","E","n","d","e","d"," ","A","u","g","u","s","t"," ","3","1",",">>>>, <<<<>>, <<"2","0","2","4">>, <<"2","0","2","3">>>> >> }

NavBeginningChoices == { <<"$","1","0","0",".","0","0">>, <<EmDash>>, <<"N","a","N">> }

\* the cells after the label of the "Total from Investment Operations" row
TotalOpsChoices == { <<<<"1","2",".","0","0">>>>, <<<<"1","2",".","0","2">>>>, <<>> }

\* the "Equalization" rows of the table: none or one
EqualizationChoices ==
    { <<>>, << <<<<"E","q","u","a","l","i","z","a","t","i","o","n">>, <<"0",".","0","5">>>> >>, << <<<<"E","q","u","a","l","i","z","a","t","i","o","n">>, <<EmDash>>>> >> }

DistTotalChoices == { <<"(","2",".","0","0",")">>, <<>> }

NavEndChoices == { <<"$","1","1","0",".","0","5">>, <<"$","1","1","0",".","0","6">>, <<"$","1","1","0",".","0","6","1">>, <<"$","1","1","0",".","0","7">>, <<"I","n","f","i","n","i","t","y">> }

NetAssetsChoices == { <<"$","5","0","0">>, <<"s","N","a","N">> }

TableRows(hdr, nb, to, eq, dt, ne, na) ==
    hdr \o
    << <<<<"N","e","t"," ","A","s","s","e","t"," ","V","a","l","u","e",","," ","B","e","g","i","n","n","i","n","g"," ","o","f"," ","P","e","r","i","o","d">>, nb>>,
       <<<<"I","n","v","e","s","t","m","e","n","t"," ","O","p","e","r","a","t","i","o","n","s">>, <<>>>>,
       <<<<"N","e","t"," ","I","n","v","e","s","t","m","e","n","t"," ","I","n","c","o","m","e">>, <<"2",".","0","0">>>>,
       <<<<"N","e","t"," ","R","e","a","l","i","z","e","d"," ","a","n","d"," ","U","n","r","e","a","l","i","z","e","d"," ","G","a","i","n">>, <<"1","0",".","0","0">>>>,
       <<<<"T","o","t","a","l"," ","f","r","o","m"," ","I","n","v","e","s","t","m","e","n","t"," ","O","p","e","r","a","t","i","o","n","s">>>> \o to >> \o
    eq \o
    << <<<<"D","i","s","t","r","i","b","u","t","i","o","n","s">>, <<>>>>,
       <<<<"D","i","v","i","d","e","n","d","s"," ","f","r","o","m"," ","N","e","t"," ","I","n","v","e","s","t","m","e","n","t"," ","I","n","c","o","m","e">>, <<"(","2",".","0","0",")">>>>,
       <<<<"T","o","t","a","l"," ","D","i","s","t","r","i","b","u","t","i","o","n","s">>, dt>>,
       <<<<"N","e","t"," ","A","s","s","e","t"," ","V","a","l","u","e",","," ","E","n","d"," ","o","f"," ","P","e","r","i","o","d">>, ne>>,
       <<<<"T","o","t","a","l"," ","R","e","t","u","r","n">>, <<"1","2",".","1","0","%">>>>,
       <<<<"R","a","t","i","o","s","/","S","u","p","p","l","e","m","e","n","t","a","l"," ","D","a","t","a">>, <<>>>>,
       <<<<"N","e","t"," ","A","s","s","e","t","s",","," ","E","n","d"," ","o","f"," ","P","e","r","i","o","d"," ","(","M","i","l","l","i","o","n","s",")">>, na>> >>

CutRows(rows, cut) == SubSeq(rows, 1, Len(rows) - cut)

TableInputs ==
    { CutRows(TableRows(hdr, nb, to, eq, dt, ne, na), cut) :
        hdr \in HeaderChoices, nb \in NavBeginningChoices, to \in TotalOpsChoices,
        eq \in EqualizationChoices, dt \in DistTotalChoices, ne \in NavEndChoices,
        na \in NetAssetsChoices, cut \in 0..MaxCut }

-----------------------------------------------------------------------------
(* _process_cik_finhigh (parsers/finhigh.py)                               *)

\* "MAX_FILINGS = 10"
MAX_FILINGS == 10

\* no class id: None, or the empty text a header can give
NoClassId == "None"

ClassIdFalsy(cid) == cid = NoClassId \/ cid = ""

\* A filing's SGML header, as the blocks _parse_series_class_mapping reads: a
\* sequence of SERIES blocks [name, classes], the classes a sequence of
\* CLASS-CONTRACT blocks [id, name, ticker], a field that is absent being None
\* (NoClassId for the id).

\* d[key] = value on a dict kept as a sequence of <<key, value>> in insertion order
DictPut(d, key, value) ==
    IF \E i \in 1..Len(d) : d[i][1] = key
    THEN [i \in 1..Len(d) |-> IF d[i][1] = key THEN <<key, value>> ELSE d[i]]
    ELSE Append(d, <<key, value>>)

\* the CLASS-CONTRACT blocks of the header in order, each with its series' name
RECURSIVE HeaderClasses(_)
HeaderClasses(header) ==
    IF header = <<>> THEN <<>>
    ELSE LET s == Head(header)
         IN  (IF s.name = PyNone THEN <<>>
              ELSE [i \in 1..Len(s.classes) |->
                       [series |-> Lower(Strip(s.name)), class |-> s.classes[i]]])
             \o HeaderClasses(Tail(header))

\* result['by_name'] after the first n class blocks
RECURSIVE ByName(_, _)
ByName(blocks, n) ==
    IF n = 0 THEN <<>>
    ELSE LET b == blocks[n]
         IN  IF b.class.id # NoClassId /\ b.class.name # PyNone
             THEN DictPut(ByName(blocks, n - 1),
                          <<b.series, Lower(Strip(b.class.name))>>, b.class.id)
             ELSE ByName(blocks, n - 1)

\* result['by_ticker'] after the first n class blocks
RECURSIVE ByTicker(_, _)
ByTicker(blocks, n) ==
    IF n = 0 THEN <<>>
    ELSE LET b == blocks[n]
         IN  IF b.class.id # NoClassId /\ b.class.ticker # PyNone
                /\ Strip(b.class.ticker) # <<>>
             THEN DictPut(ByTicker(blocks, n - 1), Strip(b.class.ticker), b.class.id)
             ELSE ByTicker(blocks, n - 1)

NoMapping == [by_name |-> <<>>, by_ticker |-> <<>>]

\* _parse_series_class_mapping
ParseSeriesClassMapping(header) ==
    [ by_name   |-> ByName(HeaderClasses(header), Len(HeaderClasses(header))),
      by_ticker |-> ByTicker(HeaderClasses(header), Len(HeaderClasses(header))) ]

\* A table in a filing's HTML: its rows and, nearest first, the texts of the
\* heading, paragraph and div elements before it.

FundKeywords == { <<"f","u","n","d">>, <<"i","n","d","e","x">>, <<"p","o","r","t","f","o","l","i","o">>, <<"t","r","u","s","t">> }

\* the text of a preceding element names the fund
NamesFund(t) ==
    /\ Strip(t) # <<>>
    /\ Len(Strip(t)) < 200
    /\ ~Contains(Lower(Strip(t)), <<"f","i","n","a","n","c","i","a","l"," ","h","i","g","h","l","i","g","h","t","s">>)
    /\ \E kw \in FundKeywords : Contains(Lower(Strip(t)), kw)

\* _find_table_context: the class label from the first cell of the first row, the
\* fund name from the nearest of the 30 preceding elements that names a fund
FindTableContext(before, rows) ==
    LET cell == IF rows # <<>> /\ rows[1] # <<>> THEN Strip(rows[1][1]) ELSE <<>>
        near == SubSeq(before, 1, MinOf(Len(before), 30))
    IN  [ class_name |-> IF cell # <<>> /\ Contains(Lower(cell), <<"s","h","a","r","e","s">>) /\ Len(cell) < 100
                         THEN cell ELSE PyNone,
          fund_name  |-> IF \E i \in 1..Len(near) : NamesFund(near[i])
                         THEN Strip(near[CHOOSE i \in 1..Len(near) :
                                        /\ NamesFund(near[i])
                                        /\ \A j \in 1..(i - 1) : ~NamesFund(near[j])])
                         ELSE PyNone ]

\* the filter on the tables of a filing: both phrases occur in the table's text
RECURSIVE TableText(_)
TableText(rows) == IF rows = <<>> THEN <<>> ELSE RowText(Head(rows)) \o TableText(Tail(rows))

IsFinancialHighlights(rows) ==
    /\ Contains(Lower(TableText(rows)), <<"n","e","t"," ","a","s","s","e","t"," ","v","a","l","u","e">>)
    /\ Contains(Lower(TableText(rows)), <<"i","n","v","e","s","t","m","e","n","t"," ","o","p","e","r","a","t","i","o","n","s">>)

\* the name loop: the entry's series and class each contain, or are contained in,
\* the table's fund name and class label
NameMatches(entry, fund, class) ==
    /\ Contains(fund, entry[1][1]) \/ Contains(entry[1][1], fund)
    /\ Contains(class, entry[1][2]) \/ Contains(entry[1][2], class)

\* the ticker loop: the ticker occurs in the fund name or in the class label
TickerMatches(entry, fund, class) ==
    Contains(fund, Lower(entry[1])) \/ Contains(class, Lower(entry[1]))

\* the value of the first entry of a dict that satisfies the test, else None
FirstValue(d, Test(_)) ==
    IF \E i \in 1..Len(d) : Test(d[i])
    THEN d[CHOOSE i \in 1..Len(d) : Test(d[i]) /\ \A j \in 1..(i - 1) : ~Test(d[j])][2]
    ELSE NoClassId

\* matched_class_id: the first name entry that matches and, when that gives no
\* class id, the first ticker entry that matches
MatchClassId(mapping, fund_name, class_name) ==
    LET fund     == Lower(fund_name)
        class    == Lower(class_name)
        ByN(e)   == NameMatches(e, fund, class)
        ByT(e)   == TickerMatches(e, fund, class)
        by_name  == FirstValue(mapping.by_name, ByN)
    IN  IF ~ClassIdFalsy(by_name) THEN by_name
        ELSE FirstValue(mapping.by_ticker, ByT)

\* parse_financial_highlights_table as one call: the failure raised, or the result
ParseTable(hasTable, rows) ==
    LET rm   == RowMap(rows)
        vals == ExtractValues(rows, rm)
    IN  IF PreconditionFailure(hasTable, rows) # "none"
        THEN [raised |-> PreconditionFailure(hasTable, rows), fye |-> NoDate,
              values |-> NoValues, math_validated |-> FALSE]
        ELSE IF NetAssetsEnd(rows, rm).k = "signal" \/ MathValidated(vals) = "signal"
        THEN [raised |-> "InvalidOperation", fye |-> NoDate,
              values |-> NoValues, math_validated |-> FALSE]
        ELSE [raised |-> "none", fye |-> FiscalYearEndFrom(rows, 1),
              values |-> vals, math_validated |-> (MathValidated(vals) = "T")]

OperatingFields ==
    { "nav_beginning", "net_investment_income", "net_realized_unrealized_gain",
      "total_from_operations", "equalization", "nav_end", "total_return" }

DistributionFields ==
    { "dist_net_investment_income", "dist_realized_gains", "dist_return_of_capital",
      "dist_total" }

RatiosFields == { "expense_ratio", "portfolio_turnover", "net_assets_end" }

\* The database: the rows of the three per-share tables, of the performance table
\* and of the processing log.
EmptyDb ==
    [operating |-> {}, distribution |-> {}, ratios |-> {}, performance |-> {}, log |-> {}]

\* the session's view of the database and what the last commit saved
EmptyStore == [live |-> EmptyDb, saved |-> EmptyDb]

\* the rows of a table for an ETF and fiscal year end
RowsOf(table, etf_id, fye) == {r \in table : r.etf_id = etf_id /\ r.fiscal_year_end = fye}

\* session.add(row) whether or not the table has a row for the pair
UpsertAlwaysAdds(table, row) == table \cup {row}

\* query ... .first(), then update that row or add a new one
Upsert(table, row) ==
    IF RowsOf(table, row.etf_id, row.fiscal_year_end) # {}
    THEN (table \ {CHOOSE r \in RowsOf(table, row.etf_id, row.fiscal_year_end) : TRUE})
            \cup {row}
    ELSE table \cup {row}

OperatingRow(etf_id, data) ==
    [ etf_id |-> etf_id, fiscal_year_end |-> data.fye,
      math_validated |-> data.math_validated,
      values |-> [f \in OperatingFields |-> data.values[f]] ]

DistributionRow(etf_id, data) ==
    [ etf_id |-> etf_id, fiscal_year_end |-> data.fye,
      values |-> [f \in DistributionFields |-> data.values[f]] ]

RatiosRow(etf_id, data) ==
    [ etf_id |-> etf_id, fiscal_year_end |-> data.fye,
      values |-> [f \in RatiosFields |-> data.values[f]] ]

\* the three upserts of one table's data
\* the upserts made only for data that passed the math validation
UpsertAllValidated(db, etf_id, data) ==
    IF ~data.math_validated THEN db
    ELSE [db EXCEPT !.operating    = Upsert(@, OperatingRow(etf_id, data)),
                    !.distribution = Upsert(@, DistributionRow(etf_id, data)),
                    !.ratios       = Upsert(@, RatiosRow(etf_id, data))]

UpsertAll(db, etf_id, data) ==
    [db EXCEPT !.operating    = Upsert(@, OperatingRow(etf_id, data)),
               !.distribution = Upsert(@, DistributionRow(etf_id, data)),
               !.ratios       = Upsert(@, RatiosRow(etf_id, data))]

\* "(matched_etf.class_id, table_data['fiscal_year_end']) in satisfied"
AlreadyProcessedNever(satisfied, class_id, fye) == FALSE

AlreadyProcessed(satisfied, class_id, fye) == <<class_id, fye>> \in satisfied

\* "needed_class_ids - {cid for cid, _ in satisfied}" is empty
AllSatisfied(needed, satisfied) == needed \subseteq {p[1] : p \in satisfied}

\* The filers of the database and their ETF rows: filer "A" has two ETFs with a
\* class id and one without, filer "B" has no ETF with a class id.
Filers == {"A", "B"}

EtfsOf(cik) ==
    IF cik = "A"
    THEN { [id |-> 1, class_id |-> "C1"], [id |-> 2, class_id |-> "C2"],
           [id |-> 3, class_id |-> NoClassId] }
    ELSE { [id |-> 4, class_id |-> NoClassId] }

\* class_id_to_etf: the ETFs of the filer that have a class id, by class id
ClassIdToEtf(cik) == {e \in EtfsOf(cik) : ~ClassIdFalsy(e.class_id)}

\* class_id_to_etf.get(class_id): the ETF's id, 0 for None
EtfOf(cik, class_id) ==
    IF \E e \in ClassIdToEtf(cik) : e.class_id = class_id
    THEN (CHOOSE e \in ClassIdToEtf(cik) : e.class_id = class_id).id
    ELSE 0

\* The headers of the filings: two series whose names contain one another, in
\* either order; a header whose only usable entries are a ticker and a class the
\* database does not know; and an empty header.
ClassBlock(id, name, ticker) == [id |-> id, name |-> name, ticker |-> ticker]

SeriesBlock(name, classes) == [name |-> name, classes |-> classes]

PassHeaders ==
    { << SeriesBlock(<<"B","o","n","d"," ","F","u","n","d">>, <<ClassBlock("C1", <<"E","T","F"," ","S","h","a","r","e","s">>, <<"B","N","D">>)>>),
         SeriesBlock(<<"B","o","n","d"," ","F","u","n","d"," ","I","I">>, <<ClassBlock("C2", <<"E","T","F"," ","S","h","a","r","e","s">>, <<"B","N","D","X">>)>>) >>,
      << SeriesBlock(<<"B","o","n","d"," ","F","u","n","d"," ","I","I">>, <<ClassBlock("C2", <<"E","T","F"," ","S","h","a","r","e","s">>, <<"B","N","D","X">>)>>),
         SeriesBlock(<<"B","o","n","d"," ","F","u","n","d">>, <<ClassBlock("C1", <<"E","T","F"," ","S","h","a","r","e","s">>, <<"B","N","D">>)>>) >>,
      << SeriesBlock(<<"T","o","t","a","l"," ","B","o","n","d"," ","M","a","r","k","e","t">>, <<ClassBlock("C1", PyNone, <<"B","N","D">>),
                                           ClassBlock(NoClassId, <<"E","T","F"," ","S","h","a","r","e","s">>, PyNone)>>),
         SeriesBlock(PyNone, <<ClassBlock("C2", <<"E","T","F"," ","S","h","a","r","e","s">>, PyNone)>>),
         SeriesBlock(<<"B","o","n","d"," ","F","u","n","d"," ","I","I">>, <<ClassBlock("C9", <<"E","T","F"," ","S","h","a","r","e","s">>, PyNone)>>) >>,
      << >> }

\* The tables of the filings: a fund's table under the heading of its fund, with
\* the class label and the period in its first row.
Doc(fund, label, period, ne) ==
    [ before |-> <<<<"F","i","n","a","n","c","i","a","l"," ","H","i","g","h","l","i","g","h","t","s">>>> \o fund,
      rows   |-> TableRows(<< <<label, period>> >>, <<"$","1","0","0",".","0","0">>, <<<<"1","2",".","0","0">>>>, <<>>,
                           <<"(","2",".","0","0",")">>, ne, <<"$","5","0","0">>) ]

PassDocs ==
    { Doc(<<<<"B","o","n","d"," ","F","u","n","d">>>>, <<"E","T","F"," ","S","h","a","r","e","s">>, period, ne) :
        period \in {<<"Y","e","a","r"," ","E","n","d","e","d"," ","1","2","/","3","1","/","2","0","2","4">>, <<"Y","e","a","r"," ","E","n","d","e","d"," ","1","2","/","3","1","/","2","0","2","3">>},
        ne \in {<<"$","1","1","0",".","0","0">>, <<"$","1","1","1",".","0","0">>} }
    \cup
    { Doc(<<<<"B","o","n","d"," ","F","u","n","d"," ","I","I">>>>, <<"E","T","F"," ","S","h","a","r","e","s">>, <<"Y","e","a","r"," ","E","n","d","e","d"," ","1","2","/","3","1","/","2","0","2","4">>, ne) :
        ne \in {<<"$","1","1","0",".","0","0">>, <<"$","1","1","1",".","0","0">>} }
    \cup
    { Doc(<<<<"B","N","D"," ","T","r","u","s","t">>>>, <<"E","T","F"," ","S","h","a","r","e","s">>, <<"Y","e","a","r"," ","E","n","d","e","d"," ","1","2","/","3","1","/","2","0","2","4">>, <<"$","1","1","0",".","0","0">>),
      Doc(<<<<"B","o","n","d"," ","F","u","n","d">>>>, <<"P","e","r"," ","S","h","a","r","e"," ","D","a","t","a">>, <<"Y","e","a","r"," ","E","n","d","e","d"," ","1","2","/","3","1","/","2","0","2","4">>, <<"$","1","1","0",".","0","0">>),
      Doc(<<>>, <<"E","T","F"," ","S","h","a","r","e","s">>, <<"Y","e","a","r"," ","E","n","d","e","d"," ","1","2","/","3","1","/","2","0","2","4">>, <<"$","1","1","0",".","0","0">>),
      Doc(<<<<"B","o","n","d"," ","F","u","n","d">>>>, <<"E","T","F"," ","S","h","a","r","e","s">>, <<"2","0","2","4">>, <<"$","1","1","0",".","0","0">>),
      Doc(<<<<"B","o","n","d"," ","F","u","n","d">>>>, <<"E","T","F"," ","S","h","a","r","e","s">>, <<"Y","e","a","r"," ","E","n","d","e","d"," ","1","2","/","3","1","/","2","0","2","4">>, <<"N","a","N">>),
      [ before |-> <<<<"B","o","n","d"," ","F","u","n","d">>>>,
        rows   |-> CutRows(Doc(<<>>, <<"E","T","F"," ","S","h","a","r","e","s">>, <<"2","0","2","4">>, <<"$","1","1","0",".","0","0">>).rows, 5) ],
      [ before |-> <<<<"B","o","n","d"," ","F","u","n","d">>>>,
        rows   |-> << <<<<"E","T","F"," ","S","h","a","r","e","s">>, <<"N","e","t"," ","A","s","s","e","t"," ","V","a","l","u","e">>>> >> ] }

\* the mappings _parse_series_class_mapping gives for the headers
PassMappings == {ParseSeriesClassMapping(h) : h \in PassHeaders}

\* what _find_table_context, the filter and parse_financial_highlights_table give
\* for each of the tables
PassTables ==
    { [ context |-> FindTableContext(d.before, d.rows),
        is_fh   |-> IsFinancialHighlights(d.rows),
        data    |-> ParseTable(TRUE, d.rows) ] : d \in PassDocs }

\* The reconciliation on its own: the name loop and the ticker loop of
\* _process_cik_finhigh for one mapping, fund name and class label.
MatchFunds ==
    { <<"B","o","n","d"," ","F","u","n","d">>, <<"B","o","n","d"," ","F","u","n","d"," ","I","I">>, <<"B","N","D"," ","T","r","u","s","t">>, <<"B","o","n","d">>, <<"S","t","o","c","k"," ","I","n","d","e","x"," ","F","u","n","d">>,
      <<"T","o","t","a","l"," ","B","o","n","d"," ","M","a","r","k","e","t"," ","I","n","d","e","x"," ","F","u","n","d">> }

MatchLabels == { <<"E","T","F"," ","S","h","a","r","e","s">>, <<"A","d","m","i","r","a","l"," ","S","h","a","r","e","s">>, <<"B","N","D","X"," ","S","h","a","r","e","s">>, <<"S","h","a","r","e","s">> }

MatchCall(mapping, fund_name, class_name) ==
    [ pc |-> "call", mapping |-> mapping, fund_name |-> fund_name,
      class_name |-> class_name, matched_class_id |-> NoClassId ]

MatchIdle ==
    [ pc |-> "idle", mapping |-> NoMapping, fund_name |-> <<>>, class_name |-> <<>>,
      matched_class_id |-> NoClassId ]

MtMatch ==
    /\ mt.pc = "call"
    /\ mt' = [mt EXCEPT !.pc = "done",
                        !.matched_class_id =
                            MatchClassId(mt.mapping, mt.fund_name, mt.class_name)]
    /\ UNCHANGED <<fn, cv, tp, ps, np, store>>

\* the filings a filer lists and the tables of a filing
MaxListed == 2
MaxTables == 2

\* The database before the pass: empty, or with the rows an earlier pass saved for
\* one of the tables.
PriorStores ==
    {EmptyStore} \cup
    { [live |-> UpsertAll(EmptyDb, 1, t.data), saved |-> UpsertAll(EmptyDb, 1, t.data)] :
        t \in {u \in PassTables : u.is_fh /\ u.data.raised = "none" /\ u.data.fye # NoDate
                                   /\ ~u.data.math_validated} }

\* The activation record of a pass.  Besides the variables of the code it keeps,
\* for the properties: first, the data of the first table of the pass that got as
\* far as the satisfied check for a pair; writes, how often the pair's rows were
\* written in the pass; skipped, the pairs for which a table with other data than
\* the first was passed over.
PassIdle ==
    [ pc |-> "idle", cik |-> "A", filing_idx |-> 0, num_filings |-> 0,
      needed |-> {}, satisfied |-> {}, mapping |-> NoMapping, tables_left |-> 0,
      first |-> <<>>, writes |-> <<>>, skipped |-> {}, outcome |-> "other",
      result |-> TRUE ]

PassOff == [PassIdle EXCEPT !.pc = "off"]

\* the pairs an earlier pass stored for the filer count as satisfied
SatisfiedFromEarlierPass(table, cik) ==
    { <<e.class_id, r.fiscal_year_end>> :
        e \in {x \in ClassIdToEtf(cik) : \E r \in table : r.etf_id = x.id},
        r \in table }

\* "satisfied = set()": the set is a local variable of the pass and starts empty
\* whatever rows the database holds for the filer
SatisfiedAtStart(table, cik) == {}

\* the start of _process_cik_finhigh up to the loop over the filings: the class ids
\* of the filer's ETFs, the empty satisfied set, the filings listed (n of them, or
\* the listing fails)
PassStart ==
    /\ ps.pc = "idle"
    /\ \E cik \in Filers, n \in 0..MaxListed, lists \in BOOLEAN :
          LET needed == {e.class_id : e \in ClassIdToEtf(cik)}
              begun  == [PassIdle EXCEPT
                            !.cik = cik, !.needed = needed,
                            !.satisfied = SatisfiedAtStart(store.live.operating, cik)]
          IN  IF needed = {} \/ (lists /\ n = 0)
              THEN /\ ps' = [begun EXCEPT !.pc = "done", !.result = TRUE]
                   /\ store' = store
              ELSE IF ~lists
              THEN /\ ps' = [begun EXCEPT !.pc = "done", !.result = FALSE]
                   /\ store' = [store EXCEPT !.live = store.saved]
              ELSE /\ ps' = [begun EXCEPT !.pc = "filing",
                                           !.num_filings = MinOf(n, MAX_FILINGS)]
                   /\ store' = store
    /\ UNCHANGED <<fn, cv, tp, mt, np>>

\* the head of the loop body: the end of the filings, the early stop, a filing
\* without HTML, or the filing's header mapping and its tables
PassFiling ==
    /\ ps.pc = "filing"
    /\ \/ /\ ps.filing_idx >= ps.num_filings \/ AllSatisfied(ps.needed, ps.satisfied)
          /\ ps' = [ps EXCEPT !.pc = "commit", !.outcome = "other"]
       \/ /\ ps.filing_idx < ps.num_filings /\ ~AllSatisfied(ps.needed, ps.satisfied)
          /\ \E html \in BOOLEAN, m \in PassMappings \cup {NoMapping}, k \in 0..MaxTables :
                ps' = IF ~html \/ k = 0
                      THEN [ps EXCEPT !.filing_idx = @ + 1, !.outcome = "other"]
                      ELSE [ps EXCEPT !.pc = "table", !.tables_left = k,
                                      !.mapping = m, !.outcome = "other"]
    /\ UNCHANGED <<fn, cv, tp, mt, np, store>>

\* how the round of a table ends: at the continue statement after the match has
\* given no class id, at the one after the class id is found to be of no ETF of
\* the filer, or at any other statement
TableOutcome(t, matched, etf) ==
    IF ~t.is_fh \/ t.context.fund_name = PyNone \/ t.context.class_name = PyNone
    THEN "other"
    ELSE IF ClassIdFalsy(matched) THEN "no_match"
    ELSE IF etf = 0 THEN "unknown_class"
    ELSE "other"

\* a table gets as far as the satisfied check whatever it was matched to
ReachesUnmatched(t, matched) ==
    /\ t.is_fh
    /\ t.context.fund_name # PyNone /\ t.context.class_name # PyNone
    /\ t.data.raised = "none"
    /\ t.data.fye # NoDate

\* a table gets as far as the satisfied check: it passes the filter, has a context,
\* is matched to an ETF of the filer and is parsed to data with a fiscal year end
Reaches(t, matched) ==
    /\ t.is_fh
    /\ t.context.fund_name # PyNone /\ t.context.class_name # PyNone
    /\ ~ClassIdFalsy(matched)
    /\ EtfOf(ps.cik, matched) # 0
    /\ t.data.raised = "none"
    /\ t.data.fye # NoDate

\* one round of the loop over the tables of the filing
PassTable ==
    /\ ps.pc = "table"
    /\ \E t \in PassTables :
          LET tries   == /\ t.is_fh
                         /\ t.context.fund_name # PyNone /\ t.context.class_name # PyNone
              matched == IF tries
                         THEN MatchClassId(ps.mapping, t.context.fund_name,
                                           t.context.class_name)
                         ELSE NoClassId
              pair    == <<matched, t.data.fye>>
              stores  == Reaches(t, matched)
                         /\ ~AlreadyProcessed(ps.satisfied, matched, t.data.fye)
              next    == [ps EXCEPT
                            !.tables_left = @ - 1,
                            !.pc = IF ps.tables_left = 1 THEN "filing" ELSE "table",
                            !.filing_idx = IF ps.tables_left = 1 THEN @ + 1 ELSE @,
                            !.first = IF Reaches(t, matched) /\ pair \notin DOMAIN @
                                      THEN @ @@ (pair :> t.data) ELSE @,
                            !.writes = IF ~stores THEN @
                                       ELSE IF pair \in DOMAIN @
                                       THEN [@ EXCEPT ![pair] = @ + 1]
                                       ELSE @ @@ (pair :> 1),
                            !.skipped = IF Reaches(t, matched) /\ ~stores
                                           /\ pair \in DOMAIN ps.first
                                           /\ ps.first[pair] # t.data
                                        THEN @ \cup {pair} ELSE @,
                            !.satisfied = IF stores THEN @ \cup {pair} ELSE @,
                            !.outcome = TableOutcome(t, matched,
                                                     EtfOf(ps.cik, matched))]
          IN  /\ ps' = next
              /\ store' = IF stores
                          THEN [store EXCEPT
                                  !.live = UpsertAll(@, EtfOf(ps.cik, matched), t.data)]
                          ELSE store
    /\ UNCHANGED <<fn, cv, tp, mt, np>>

\* session.commit() and "return True", or the commit fails: rollback, "return False"
PassCommit ==
    /\ ps.pc = "commit"
    /\ \/ /\ ps' = [ps EXCEPT !.pc = "done", !.result = TRUE]
          /\ store' = [store EXCEPT !.saved = store.live]
       \/ /\ ps' = [ps EXCEPT !.pc = "done", !.result = FALSE]
          /\ store' = [store EXCEPT !.live = store.saved]
    /\ UNCHANGED <<fn, cv, tp, mt, np>>

-----------------------------------------------------------------------------
(* _process_cik_ncsr (parsers/ncsr.py)                                     *)

\* member_value.split(":", 1)[1] when the value holds a colon
AfterColon(t) ==
    IF FirstIdx(t, {":"}) = 0 THEN t ELSE SubSeq(t, FirstIdx(t, {":"}) + 1, Len(t))

\* member_value[:-6] when the value ends with "Member"
StripMember(t) ==
    IF Len(t) >= 6 /\ SubSeq(t, Len(t) - 5, Len(t)) = <<"M","e","m","b","e","r">>
    THEN SubSeq(t, 1, Len(t) - 6)
    ELSE t

\* _extract_class_id: the ClassAxis member without namespace prefix and "Member"
\* suffix, None for no value or when nothing is left
ExtractClassId(member_value) ==
    IF member_value = PyNone \/ member_value = <<>> THEN PyNone
    ELSE IF StripMember(AfterColon(member_value)) = <<>> THEN PyNone
    ELSE StripMember(AfterColon(member_value))

\* _parse_decimal of ncsr.py: Decimal(str(value)), None for None and for what
\* Decimal() rejects
NcsrParseDecimal(value) ==
    IF value = PyNone THEN Null
    ELSE IF DecimalOfString(value).k = "signal" THEN Null
    ELSE DecimalOfString(value)

\* the class id of an ETF row as the text the ClassAxis member holds
ClassIdText(class_id) ==
    CASE class_id = "C1" -> <<"C","1">>
      [] class_id = "C2" -> <<"C","2">>
      [] OTHER           -> PyNone

\* class_id_to_etf.get(class_id) for an extracted class id: the ETF's id, 0 for None
NcsrEtfOf(cik, class_id) ==
    IF \E e \in ClassIdToEtf(cik) : ClassIdText(e.class_id) = class_id
    THEN (CHOOSE e \in ClassIdToEtf(cik) : ClassIdText(e.class_id) = class_id).id
    ELSE 0

\* "key in satisfied"
KeyInSatisfied(satisfied, key) == key \in satisfied

\* a date as a number that orders dates
DateOrd(d) == d.y * 10000 + d.m * 100 + d.d

\* "if latest_filing_date is None or filing_date > latest_filing_date"
LaterDate(latest, filing_date) ==
    IF latest = NoDate \/ DateOrd(filing_date) > DateOrd(latest)
    THEN filing_date ELSE latest

\* the Performance row of a class's fund facts (the return and benchmark columns
\* are left out)
PerformanceRow(etf_id, fye, filing_date, facts) ==
    [ etf_id |-> etf_id, fiscal_year_end |-> fye, filing_date |-> filing_date,
      expense_ratio_actual |-> NcsrParseDecimal(facts.expense_ratio),
      portfolio_turnover   |-> NcsrParseDecimal(facts.portfolio_turnover) ]

\* select(Performance) by ETF, fiscal year end and filing date, then update the
\* row found or add a new one
UpsertPerformance(table, row) ==
    {r \in table : ~(/\ r.etf_id = row.etf_id
                     /\ r.fiscal_year_end = row.fiscal_year_end
                     /\ r.filing_date = row.filing_date)} \cup {row}

\* update_processing_log (parser_utils.py): insert, or on a conflict on
\* (cik, parser_type) update; last_run_at, the wall-clock time, is left out
UpdateProcessingLog(log, cik, parser_type, filing_date) ==
    {r \in log : ~(r.cik = cik /\ r.parser_type = parser_type)}
        \cup {[cik |-> cik, parser_type |-> parser_type,
               latest_filing_date_seen |-> filing_date]}

\* The facts of a filing for one ClassAxis member: the member, the period_end of
\* the first fund fact (None when it is missing) and the numeric values of the
\* expense ratio and turnover facts.
Facts(axis, period_end, expense_ratio) ==
    [ class_axis_value |-> axis, period_end |-> period_end,
      expense_ratio |-> expense_ratio, portfolio_turnover |-> <<"1","2",".","0">> ]

NcsrFacts ==
    { Facts(<<"i","s","t",":","C","1","M","e","m","b","e","r">>, <<"2","0","2","4","-","1","2","-","3","1">>, <<"0",".","0","3">>),
      Facts(<<"i","s","t",":","C","1","M","e","m","b","e","r">>, <<"2","0","2","4","-","1","2","-","3","1">>, <<"0",".","0","4">>),
      Facts(<<"C","1","M","e","m","b","e","r">>, <<"2","0","2","4","-","1","2","-","3","1">>, <<"0",".","0","5">>),
      Facts(<<"C","1","M","e","m","b","e","r">>, <<"2","0","2","3","-","1","2","-","3","1">>, <<"0",".","0","3">>),
      Facts(<<"C","2","M","e","m","b","e","r">>, <<"2","0","2","4","-","1","2","-","3","1">>, <<"0",".","0","3">>),
      Facts(<<"C","9","M","e","m","b","e","r">>, <<"2","0","2","4","-","1","2","-","3","1">>, <<"0",".","0","3">>),
      Facts(<<"i","s","t",":","M","e","m","b","e","r">>, <<"2","0","2","4","-","1","2","-","3","1">>, <<"0",".","0","3">>),
      Facts(<<"C","2","M","e","m","b","e","r">>, PyNone, <<"0",".","0","3">>),
      Facts(<<"C","2","M","e","m","b","e","r">>, <<"1","2","/","3","1","/","2","0","2","4">>, PyNone) }

\* the filing dates of the filings
NcsrDates == { Date(2025, 2, 28), Date(2024, 2, 29) }

\* the ClassAxis members of one filing
MaxClasses == 2

\* The activation record of a pass of _process_cik_ncsr.  Besides the variables of
\* the code it keeps, for the properties: first, the filing date and facts of the
\* first fact set of the pass that got as far as the satisfied check for a key;
\* writes, how often the key's row was written in the pass; skipped, the keys for
\* which a fact set other than the first was passed over.
NcsrIdle ==
    [ pc |-> "idle", cik |-> "A", filing_idx |-> 0, num_filings |-> 0,
      needed |-> {}, satisfied |-> {}, filing_date |-> NoDate,
      latest_filing_date |-> NoDate, classes_left |-> 0, seen |-> {},
      first |-> <<>>, writes |-> <<>>, skipped |-> {}, result |-> TRUE ]

NcsrOff == [NcsrIdle EXCEPT !.pc = "off"]

\* the start of _process_cik_ncsr up to the loop over the filings
NcsrStart ==
    /\ np.pc = "idle"
    /\ \E cik \in Filers, n \in 0..MaxListed, lists \in BOOLEAN :
          LET needed == {ClassIdText(e.class_id) : e \in ClassIdToEtf(cik)}
              begun  == [NcsrIdle EXCEPT
                            !.cik = cik, !.needed = needed,
                            !.satisfied = SatisfiedAtStart(store.live.performance, cik)]
          IN  IF needed = {} \/ (lists /\ n = 0)
              THEN /\ np' = [begun EXCEPT !.pc = "done", !.result = TRUE]
                   /\ store' = store
              ELSE IF ~lists
              THEN /\ np' = [begun EXCEPT !.pc = "done", !.result = FALSE]
                   /\ store' = [store EXCEPT !.live = store.saved]
              ELSE /\ np' = [begun EXCEPT !.pc = "filing",
                                           !.num_filings = MinOf(n, MAX_FILINGS)]
                   /\ store' = store
    /\ UNCHANGED <<fn, cv, tp, mt, ps>>

\* the head of the loop body: the end of the filings, the early stop, or a filing
\* with its date, that is no inline XBRL or has no usable facts, or whose facts
\* have k ClassAxis members
NcsrFiling ==
    /\ np.pc = "filing"
    /\ \/ /\ np.filing_idx >= np.num_filings \/ AllSatisfied(np.needed, np.satisfied)
          /\ np' = [np EXCEPT !.pc = "commit"]
       \/ /\ np.filing_idx < np.num_filings /\ ~AllSatisfied(np.needed, np.satisfied)
          /\ \E filing_date \in NcsrDates, inline \in BOOLEAN, k \in 0..MaxClasses :
                np' = IF ~inline \/ k = 0
                      THEN [np EXCEPT !.filing_idx = @ + 1,
                                      !.latest_filing_date = LaterDate(@, filing_date)]
                      ELSE [np EXCEPT !.pc = "class", !.classes_left = k,
                                      !.seen = {}, !.filing_date = filing_date,
                                      !.latest_filing_date = LaterDate(@, filing_date)]
    /\ UNCHANGED <<fn, cv, tp, mt, ps, store>>

\* the facts get as far as the satisfied check: the member gives a class id of one
\* of the filer's ETFs and the first period_end is there
NcsrReaches(cik, f) ==
    /\ ExtractClassId(f.class_axis_value) # PyNone
    /\ NcsrEtfOf(cik, ExtractClassId(f.class_axis_value)) # 0
    /\ f.period_end # PyNone

\* one round of the loop over the unique ClassAxis members of the filing; a
\* period_end that strptime rejects raises out of the loops: rollback, return False
NcsrClass ==
    /\ np.pc = "class"
    /\ \E f \in NcsrFacts :
          /\ f.class_axis_value \notin np.seen
          /\ LET class_id == ExtractClassId(f.class_axis_value)
                 fye      == DateOfIsoText(f.period_end)
                 key      == <<class_id, fye>>
                 raises   == NcsrReaches(np.cik, f) /\ fye = NoDate
                 stores   == NcsrReaches(np.cik, f) /\ fye # NoDate
                             /\ ~KeyInSatisfied(np.satisfied, key)
                 arrives  == NcsrReaches(np.cik, f) /\ fye # NoDate
                 this     == [filing_date |-> np.filing_date, facts |-> f]
             IN  IF raises
                 THEN /\ np' = [np EXCEPT !.pc = "done", !.result = FALSE]
                      /\ store' = [store EXCEPT !.live = store.saved]
                 ELSE /\ np' = [np EXCEPT
                                  !.classes_left = @ - 1,
                                  !.pc = IF np.classes_left = 1 THEN "filing" ELSE "class",
                                  !.filing_idx = IF np.classes_left = 1 THEN @ + 1 ELSE @,
                                  !.seen = @ \cup {f.class_axis_value},
                                  !.first = IF arrives /\ key \notin DOMAIN @
                                           THEN @ @@ (key :> this) ELSE @,
                                  !.writes = IF ~stores THEN @
                                             ELSE IF key \in DOMAIN @
                                             THEN [@ EXCEPT ![key] = @ + 1]
                                             ELSE @ @@ (key :> 1),
                                  !.skipped = IF arrives /\ ~stores /\ key \in DOMAIN np.first
                                                 /\ np.first[key] # this
                                              THEN @ \cup {key} ELSE @,
                                  !.satisfied = IF stores THEN @ \cup {key} ELSE @]
                      /\ store' = IF stores
                                  THEN [store EXCEPT !.live.performance =
                                          UpsertPerformance(@, PerformanceRow(
                                              NcsrEtfOf(np.cik, class_id), fye,
                                              np.filing_date, f))]
                                  ELSE store
    /\ UNCHANGED <<fn, cv, tp, mt, ps>>

\* update_processing_log when a filing was seen, then session.commit() and
\* "return True", or one of them fails: rollback, "return False"
NcsrCommit ==
    /\ np.pc = "commit"
    /\ \/ /\ np' = [np EXCEPT !.pc = "done", !.result = TRUE]
          /\ store' = IF np.latest_filing_date = NoDate
                      THEN [store EXCEPT !.saved = store.live]
                      ELSE [live  |-> [store.live EXCEPT !.log = UpdateProcessingLog(
                                          @, np.cik, "ncsr", np.latest_filing_date)],
                            saved |-> [store.live EXCEPT !.log = UpdateProcessingLog(
                                          @, np.cik, "ncsr", np.latest_filing_date)]]
       \/ /\ np' = [np EXCEPT !.pc = "done", !.result = FALSE]
          /\ store' = [store EXCEPT !.live = store.saved]
    /\ UNCHANGED <<fn, cv, tp, mt, ps>>

-----------------------------------------------------------------------------
(* SGML header parsing (sgml.py)                                           *)

NewLine == "\n"

\* the first index from which pat is found in t at or after index from, 0 when
\* there is none
Find(t, pat, from) ==
    LET First(found) ==
            IF found = {} THEN 0
            ELSE CHOOSE i \in found : \A j \in found : i <= j
    IN  First({ i \in from..(Len(t) - Len(pat) + 1) :
                  SubSeq(t, i, i + Len(pat) - 1) = pat })

\* the first index at or after from of a character of chars in t, 0 when there
\* is none
FindChar(t, chars, from) ==
    LET First(found) ==
            IF found = {} THEN 0
            ELSE CHOOSE i \in found : \A j \in found : i <= j
    IN  First({ i \in from..Len(t) : t[i] \in chars })

\* re.findall(r'<X>(.*?)</X>', t, re.DOTALL) from index from on: the texts
\* between each opening tag and the nearest closing tag after it
RECURSIVE FindAllBlocks(_, _, _, _)
FindAllBlocks(t, open, close, from) ==
    LET Opened(a) ==
            LET Closed(b) ==
                    IF b = 0 THEN <<>>
                    ELSE <<SubSeq(t, a + Len(open), b - 1)>>
                         \o FindAllBlocks(t, open, close, b + Len(close))
            IN  IF a = 0 THEN <<>> ELSE Closed(Find(t, close, a + Len(open)))
    IN  Opened(Find(t, open, from))

\* re.search(r'<TAG>(.*?)(?:\n|<)', block): group(1) of the match, None when
\* there is no match
SearchTag(block, tag) ==
    LET Group(a) ==
            LET Ended(e) ==
                    IF e = 0 THEN PyNone ELSE SubSeq(block, a + Len(tag), e - 1)
            IN  IF a = 0 THEN PyNone
                ELSE Ended(FindChar(block, {NewLine, "<"}, a + Len(tag)))
    IN  Group(Find(block, tag, 1))

NoSeriesClassInfo == [series |-> <<>>, classes |-> <<>>, tickers |-> <<>>]

\* one round of the loop over class_blocks
SgmlClassBlock(result, normalized_series, class_block) ==
    LET Ticker(r, class_id, ticker_match) ==
            IF ticker_match # PyNone /\ Strip(ticker_match) # <<>>
            THEN [r EXCEPT !.tickers = DictPut(@, Strip(ticker_match), class_id)]
            ELSE r
        Name(r, class_id, class_name_match) ==
            IF class_name_match # PyNone
            THEN [r EXCEPT !.classes =
                     DictPut(@, <<normalized_series, Lower(Strip(class_name_match))>>,
                             class_id)]
            ELSE r
        Block(class_id_match) ==
            IF class_id_match = PyNone THEN result
            ELSE Ticker(Name(result, Strip(class_id_match),
                             SearchTag(class_block, <<"<","C","L","A","S","S","-","C","O","N","T","R","A","C","T","-","N","A","M","E",">">>)),
                        Strip(class_id_match),
                        SearchTag(class_block, <<"<","C","L","A","S","S","-","C","O","N","T","R","A","C","T","-","T","I","C","K","E","R","-","S","Y","M","B","O","L",">">>))
    IN  Block(SearchTag(class_block, <<"<","C","L","A","S","S","-","C","O","N","T","R","A","C","T","-","I","D",">">>))

RECURSIVE SgmlClassBlocks(_, _, _, _)
SgmlClassBlocks(result, normalized_series, class_blocks, n) ==
    IF n = 0 THEN result
    ELSE SgmlClassBlock(SgmlClassBlocks(result, normalized_series, class_blocks, n - 1),
                        normalized_series, class_blocks[n])

\* one round of the loop over series_blocks
SgmlSeriesBlock(result, series_block) ==
    LET Classes(r, normalized_series, class_blocks) ==
            SgmlClassBlocks(r, normalized_series, class_blocks, Len(class_blocks))
        SeriesId(r, series_name, series_id_match) ==
            IF /\ series_id_match # PyNone
               /\ Strip(series_id_match) # <<>>
               /\ series_name # <<>>
            THEN [r EXCEPT !.series = DictPut(@, Strip(series_id_match), series_name)]
            ELSE r
        Block(series_name_match) ==
            IF series_name_match = PyNone THEN result
            ELSE Classes(SeriesId(result, Strip(series_name_match),
                                  SearchTag(series_block, <<"<","S","E","R","I","E","S","-","I","D",">">>)),
                         Lower(Strip(series_name_match)),
                         FindAllBlocks(series_block, <<"<","C","L","A","S","S","-","C","O","N","T","R","A","C","T",">">>,
                                       <<"<","/","C","L","A","S","S","-","C","O","N","T","R","A","C","T",">">>, 1))
    IN  Block(SearchTag(series_block, <<"<","S","E","R","I","E","S","-","N","A","M","E",">">>))

RECURSIVE SgmlSeriesBlocks(_, _, _)
SgmlSeriesBlocks(result, series_blocks, n) ==
    IF n = 0 THEN result
    ELSE SgmlSeriesBlock(SgmlSeriesBlocks(result, series_blocks, n - 1), series_blocks[n])

\* parse_series_class_info
ParseSeriesClassInfo(header_text) ==
    LET Parsed(series_blocks) ==
            SgmlSeriesBlocks(NoSeriesClassInfo, series_blocks, Len(series_blocks))
    IN  IF header_text = PyNone \/ header_text = <<>> THEN NoSeriesClassInfo
        ELSE Parsed(FindAllBlocks(header_text, <<"<","S","E","R","I","E","S",">">>, <<"<","/","S","E","R","I","E","S",">">>, 1))

-----------------------------------------------------------------------------
(* Loading the ETFs of one CIK (load_etfs.py)                              *)

filing_types == << "24F-2NT", "485BPOS", "N-CSR", "NPORT-P" >>

\* What company.get_filings(form=...) gives for a filing type: no filings, an
\* exception, a filing without header text, or the header text of filings[0].
NoFilings == <<"<no filings>">>
GetFilingsRaises == <<"<raises>">>
NoHeader == <<"<no header>">>

DictHasKey(d, key) == \E i \in 1..Len(d) : d[i][1] = key

DictGet(d, key, default) ==
    IF DictHasKey(d, key) THEN d[CHOOSE i \in 1..Len(d) : d[i][1] = key][2]
    ELSE default

\* the merge with a later name taking the place of an earlier one
RECURSIVE MergeSeriesOverwrite(_, _, _)
MergeSeriesOverwrite(series_mapping, new_series, n) ==
    IF n = 0 THEN series_mapping
    ELSE DictPut(MergeSeriesOverwrite(series_mapping, new_series, n - 1),
                 new_series[n][1], new_series[n][2])

\* for series_id, series_name in new_series.items(): the first n items merged
\* into series_mapping, entries that exist left alone
RECURSIVE MergeSeries(_, _, _)
MergeSeries(series_mapping, new_series, n) ==
    IF n = 0 THEN series_mapping
    ELSE LET Merged(m) ==
                 IF DictHasKey(m, new_series[n][1]) THEN m
                 ELSE Append(m, new_series[n])
         IN  Merged(MergeSeries(series_mapping, new_series, n - 1))

\* the body of the try statement for one filing type
MergeFiling(series_mapping, doc) ==
    LET Merge(new_series) == MergeSeries(series_mapping, new_series, Len(new_series))
    IN  IF doc \in {NoFilings, GetFilingsRaises, NoHeader} THEN series_mapping
        ELSE Merge(ParseSeriesClassInfo(doc).series)

\* entry.get("series_id") is truthy
HasSeriesId(entry) == entry.series_id # PyNone /\ entry.series_id # <<>>

needed_series_ids(entries) ==
    { entries[i].series_id : i \in { j \in 1..Len(entries) : HasSeriesId(entries[j]) } }

\* needed_series_ids and needed_series_ids.issubset(series_mapping.keys())
AllCovered(needed, series_mapping) ==
    needed # {} /\ \A id \in needed : DictHasKey(series_mapping, id)

\* fund_name of an entry: the series name, the issuer name when there is none
FundName(entry, series_mapping, issuer_name) ==
    IF HasSeriesId(entry) THEN DictGet(series_mapping, entry.series_id, issuer_name)
    ELSE issuer_name

LoadCall(entries, issuer_name, docs) ==
    [ pc |-> "loop", f |-> "_process_cik",
      arg |-> [entries |-> entries, issuer_name |-> issuer_name, docs |-> docs],
      i |-> 1, series_mapping |-> <<>>, result |-> <<>> ]

\* one round of the loop over filing_types
LdFilingType ==
    /\ fn.pc = "loop" /\ fn.f = "_process_cik"
    /\ fn.i <= Len(filing_types)
    /\ ~AllCovered(needed_series_ids(fn.arg.entries), fn.series_mapping)
    /\ fn' = [fn EXCEPT !.series_mapping = MergeFiling(@, fn.arg.docs[fn.i]),
                        !.i = @ + 1]
    /\ UNCHANGED <<cv, tp, mt, ps, np, store>>

\* the loop is left, at its end or early, and every entry is upserted with its
\* fund name
LdUpsert ==
    /\ fn.pc = "loop" /\ fn.f = "_process_cik"
    /\ \/ fn.i > Len(filing_types)
       \/ AllCovered(needed_series_ids(fn.arg.entries), fn.series_mapping)
    /\ fn' = [fn EXCEPT !.pc = "done",
                        !.result = [ j \in 1..Len(fn.arg.entries) |->
                                       [ ticker |-> fn.arg.entries[j].ticker,
                                         fund_name |-> FundName(fn.arg.entries[j],
                                                                fn.series_mapping,
                                                                fn.arg.issuer_name) ] ]]
    /\ UNCHANGED <<cv, tp, mt, ps, np, store>>

-----------------------------------------------------------------------------
(* The tag index (parsers/prospectus.py)                                   *)

\* An element of the parsed document: its tag, its attributes (None for an
\* attribute that is absent) and its text.
Element(tag, name, contextref, scale, fmt, sign, escape, text) ==
    [ tag |-> tag, name |-> name, contextref |-> contextref, scale |-> scale,
      format |-> fmt, sign |-> sign, escape |-> escape, text |-> text ]

IxTags == {"ix:nonfraction", "ix:nonnumeric"}

\* the value of an attribute is truthy
Truthy(attr) == attr # PyNone /\ attr # <<>>

\* the tag index with a later element taking the place of an earlier one
RECURSIVE BuildTagIndexLastWins(_, _)
BuildTagIndexLastWins(soup, n) ==
    IF n = 0 THEN <<>>
    ELSE IF /\ soup[n].tag \in IxTags
            /\ Truthy(soup[n].name) /\ Truthy(soup[n].contextref)
         THEN DictPut(BuildTagIndexLastWins(soup, n - 1),
                      <<soup[n].name, soup[n].contextref>>, soup[n])
         ELSE BuildTagIndexLastWins(soup, n - 1)

\* build_tag_index: tag_index after the first n elements of the document
RECURSIVE BuildTagIndex(_, _)
BuildTagIndex(soup, n) ==
    IF n = 0 THEN <<>>
    ELSE LET Indexed(tag_index, element) ==
                 IF /\ element.tag \in IxTags
                    /\ Truthy(element.name) /\ Truthy(element.contextref)
                    /\ ~DictHasKey(tag_index, <<element.name, element.contextref>>)
                 THEN Append(tag_index, <<<<element.name, element.contextref>>, element>>)
                 ELSE tag_index
         IN  Indexed(BuildTagIndex(soup, n - 1), soup[n])

\* convert_numeric_value from its first statement to its return; Signal stands
\* for the InvalidOperation it lets through
ConvertNumericValue(element, scale, fmt, sign, neg) ==
    LET Negated(v) == IF v.k = "signal" THEN Signal ELSE NegateToPositive(v, neg)
        Scaled(v) == IF v.k = "signal" THEN Signal ELSE Negated(ApplyScale(v, scale))
        Parsed(v) == IF v.k = "signal" THEN Null ELSE Scaled(ApplySign(v, sign))
        Cleaned(clean) ==
            IF BlankOrDash(clean) THEN Null ELSE Parsed(DecimalOfString(clean))
        Formatted(text, literal) ==
            IF literal.hit THEN literal.value ELSE Cleaned(CleanText(text))
        Text(text) == Formatted(text, FormatLiteral(text, fmt))
    IN  IF element = PyNone THEN Null ELSE Text(Strip(element))

\* re.sub(r'\s+', ' ', text): every run of blanks becomes one blank
RECURSIVE CollapseBlanks(_)
CollapseBlanks(t) ==
    IF Len(t) < 2 THEN t
    ELSE IF t[1] = " " /\ t[2] = " " THEN CollapseBlanks(Tail(t))
    ELSE <<t[1]>> \o CollapseBlanks(Tail(t))

\* strip_html_to_text of a fragment without markup
StripHtmlToText(html_fragment) ==
    IF html_fragment = <<>> THEN <<>> ELSE Strip(CollapseBlanks(html_fragment))

\* extract_tag_value from "if element.name == 'ix:nonfraction'" on
ElementValue(element, negate_to_positive) ==
    IF element.tag = "ix:nonfraction"
    THEN ConvertNumericValue(element.text, element.scale, element.format,
                             element.sign, negate_to_positive)
    ELSE IF element.tag = "ix:nonnumeric"
    THEN IF element.escape = <<"t","r","u","e">> THEN StripHtmlToText(element.text)
         ELSE Strip(element.text)
    ELSE Null

\* extract_tag_value called with the index: soup_or_index.get((tag_name, context_id))
ExtractFromIndex(tag_index, tag_name, context_id, negate_to_positive) ==
    IF ~DictHasKey(tag_index, <<tag_name, context_id>>) THEN Null
    ELSE ElementValue(DictGet(tag_index, <<tag_name, context_id>>, PyNone),
                      negate_to_positive)

\* extract_tag_value called with the document: soup.find_all(lambda ...)[0]
ExtractFromSoup(soup, tag_name, context_id, negate_to_positive) ==
    LET First(elements) ==
            IF elements = {} THEN Null
            ELSE ElementValue(soup[CHOOSE i \in elements : \A j \in elements : i <= j],
                              negate_to_positive)
    IN  First({ i \in 1..Len(soup) :
                  /\ soup[i].tag \in IxTags
                  /\ soup[i].name = tag_name
                  /\ soup[i].contextref = context_id })

TagCall(soup, tag_name, context_id, negate_to_positive) ==
    [ pc |-> "call", f |-> "extract_tag_value",
      arg |-> [ soup |-> soup, tag_name |-> tag_name, context_id |-> context_id,
                negate_to_positive |-> negate_to_positive ],
      tag_index |-> <<>>, by_index |-> Null, by_soup |-> Null ]

\* tag_index = build_tag_index(soup)
TgBuildTagIndex ==
    /\ fn.pc = "call" /\ fn.f = "extract_tag_value"
    /\ fn' = [fn EXCEPT !.pc = "built",
                        !.tag_index = BuildTagIndex(fn.arg.soup, Len(fn.arg.soup))]
    /\ UNCHANGED <<cv, tp, mt, ps, np, store>>

\* extract_tag_value(tag_index, tag_name, context_id, negate_to_positive)
TgExtractFromIndex ==
    /\ fn.pc = "built" /\ fn.f = "extract_tag_value"
    /\ fn' = [fn EXCEPT !.pc = "indexed",
                        !.by_index = ExtractFromIndex(fn.tag_index, fn.arg.tag_name,
                                                      fn.arg.context_id,
                                                      fn.arg.negate_to_positive)]
    /\ UNCHANGED <<cv, tp, mt, ps, np, store>>

\* extract_tag_value(soup, tag_name, context_id, negate_to_positive)
TgExtractFromSoup ==
    /\ fn.pc = "indexed" /\ fn.f = "extract_tag_value"
    /\ fn' = [fn EXCEPT !.pc = "done",
                        !.by_soup = ExtractFromSoup(fn.arg.soup, fn.arg.tag_name,
                                                    fn.arg.context_id,
                                                    fn.arg.negate_to_positive)]
    /\ UNCHANGED <<cv, tp, mt, ps, np, store>>

-----------------------------------------------------------------------------
(* parse_contexts (parsers/prospectus.py)                                  *)

\* A context declaration: its id attribute, the text of its xbrli:identifier
\* and its xbrli:segment; None for an attribute or an identifier that is absent.
Context(id, identifier, segment) ==
    [id |-> id, identifier |-> identifier, segment |-> segment]

Member(dimension, value) == [dimension |-> dimension, value |-> value]

\* context.find('xbrli:segment'): no segment, or its explicit members
NoSegment == [present |-> FALSE, members |-> <<>>]
Segment(members) == [present |-> TRUE, members |-> members]

CIK_WIDTH == 10

RECURSIVE StripZeros(_)
StripZeros(digits) ==
    IF Len(digits) > 1 /\ Head(digits) = "0" THEN StripZeros(Tail(digits)) ELSE digits

RECURSIVE ZeroPad(_, _)
ZeroPad(digits, width) ==
    IF Len(digits) >= width THEN digits ELSE ZeroPad(<<"0">> \o digits, width)

\* the identifier taken as it is written, without padding
FormatCikUnpadded(cik_text) ==
    IF Strip(cik_text) # <<>> /\ AllDigits(Strip(cik_text)) THEN Strip(cik_text)
    ELSE PyNone

\* f"{int(cik_text):010d}" for a text of digits, signs, letters and blanks;
\* None where int() raises ValueError
FormatCik(cik_text) ==
    LET Padded(sign, body) ==
            IF body = <<>> \/ ~AllDigits(body) THEN PyNone
            ELSE IF sign = <<"-">> /\ StripZeros(body) # <<"0">>
            THEN <<"-">> \o ZeroPad(StripZeros(body), CIK_WIDTH - 1)
            ELSE ZeroPad(StripZeros(body), CIK_WIDTH)
        Signed(t) ==
            IF t # <<>> /\ t[1] \in {"+", "-"} THEN Padded(<<t[1]>>, Tail(t))
            ELSE Padded(<<>>, t)
    IN  Signed(Strip(cik_text))

\* re.search(r'(S\d+)Member', member_value, re.IGNORECASE), for the letter S
\* or C: group(1).upper(), None when there is no match
SearchIdMember(letter, member_value) ==
    LET DigitsEnd(i) ==
            CHOOSE e \in i..Len(member_value) :
                /\ \A k \in (i + 1)..e : IsDigit(member_value[k])
                /\ (e = Len(member_value) \/ ~IsDigit(member_value[e + 1]))
        MatchAt(i) ==
            /\ Lower(<<member_value[i]>>) = Lower(<<letter>>)
            /\ DigitsEnd(i) > i
            /\ DigitsEnd(i) + 6 <= Len(member_value)
            /\ Lower(SubSeq(member_value, DigitsEnd(i) + 1, DigitsEnd(i) + 6)) = <<"m","e","m","b","e","r">>
        First(found) ==
            IF found = {} THEN PyNone
            ELSE <<letter>> \o SubSeq(member_value,
                                      (CHOOSE i \in found : \A j \in found : i <= j) + 1,
                                      DigitsEnd(CHOOSE i \in found : \A j \in found : i <= j))
    IN  First({ i \in 1..Len(member_value) : MatchAt(i) })

\* the loop over the explicit members: series_id and class_id after the first n
RECURSIVE Dimensions(_, _)
Dimensions(members, n) ==
    IF n = 0 THEN [series_id |-> PyNone, class_id |-> PyNone]
    ELSE LET Dim(d, dimension, member_value) ==
                 IF Contains(Lower(dimension), <<"l","e","g","a","l","e","n","t","i","t","y","a","x","i","s">>)
                 THEN IF SearchIdMember("S", member_value) # PyNone
                      THEN [d EXCEPT !.series_id = SearchIdMember("S", member_value)]
                      ELSE d
                 ELSE IF \/ Contains(Lower(dimension), <<"p","r","o","s","p","e","c","t","u","s","s","h","a","r","e">>)
                         \/ Contains(Lower(dimension), <<"c","l","a","s","s","a","x","i","s">>)
                 THEN IF SearchIdMember("C", member_value) # PyNone
                      THEN [d EXCEPT !.class_id = SearchIdMember("C", member_value)]
                      ELSE d
                 ELSE d
         IN  Dim(Dimensions(members, n - 1),
                 IF members[n].dimension = PyNone THEN <<>> ELSE members[n].dimension,
                 Strip(members[n].value))

\* the entry of one context
ContextEntry(context) ==
    LET Entry(cik, d) ==
            [cik |-> cik, series_id |-> d.series_id, class_id |-> d.class_id]
    IN  Entry(IF context.identifier = PyNone \/ Strip(context.identifier) = <<>>
              THEN PyNone
              ELSE FormatCik(Strip(context.identifier)),
              IF ~context.segment.present THEN Dimensions(<<>>, 0)
              ELSE Dimensions(context.segment.members, Len(context.segment.members)))

\* parse_contexts: context_map after the first n contexts
RECURSIVE ParseContexts(_, _)
ParseContexts(contexts, n) ==
    IF n = 0 THEN <<>>
    ELSE IF contexts[n].id = PyNone \/ contexts[n].id = <<>>
         THEN ParseContexts(contexts, n - 1)
         ELSE DictPut(ParseContexts(contexts, n - 1), contexts[n].id,
                      ContextEntry(contexts[n]))

-----------------------------------------------------------------------------
(* run_all (cli.py)                                                        *)

ParserTypes == {"nport", "ncsr", "prospectus", "finhigh", "flows"}

PARSER_FORM_MAP ==
    [ p \in ParserTypes |->
        CASE p = "nport"      -> "NPORT-P"
          [] p = "ncsr"       -> "N-CSR"
          [] p = "prospectus" -> "485BPOS"
          [] p = "finhigh"    -> "N-CSR"
          [] p = "flows"      -> "24F-2NT" ]

\* PARSER_FORM_MAP.items(): the keys in the order they are written
ParserFormItems == <<"nport", "ncsr", "prospectus", "finhigh", "flows">>

\* the parsers run in the order of their names
PARSER_ORDER_ByName == <<"finhigh", "flows", "ncsr", "nport", "prospectus">>

PARSER_ORDER == <<"nport", "ncsr", "prospectus", "finhigh", "flows">>

\* set(PARSER_FORM_MAP.values())
FormTypes == {PARSER_FORM_MAP[p] : p \in ParserTypes}

\* A filing date is a day number; None where SEC lists no filing of the form.
NoFilingDate == 0

\* "--limit" not given, or given as n
NoLimit == <<>>

\* get_all_ciks: the distinct CIKs of the ETF table in ascending order, cut to
\* ciks[:limit] when a limit is given
GetAllCiks(limit) ==
    LET sorted == <<"A", "B">>
    IN  IF limit = NoLimit THEN sorted
        ELSE SubSeq(sorted, 1, MinOf(limit[1], Len(sorted)))

\* the rows of the processing log: at most one for a CIK and parser type
LogRow(cik, parser_type, filing_date) ==
    [cik |-> cik, parser_type |-> parser_type, latest_filing_date_seen |-> filing_date]

\* get_processing_log: the rows of the CIK and parser type (scalar_one_or_none)
GetProcessingLog(log, cik, parser_type) ==
    {r \in log : r.cik = cik /\ r.parser_type = parser_type}

\* a parser is needed when SEC lists a filing of its form and the log has no row
\* for it or a row with an earlier date
IsStale(log, cik, latest_sec_filings, parser_type) ==
    LET sec_latest_date == latest_sec_filings[PARSER_FORM_MAP[parser_type]]
        rows            == GetProcessingLog(log, cik, parser_type)
    IN  /\ sec_latest_date # NoFilingDate
        /\ \/ rows = {}
           \/ \E r \in rows : sec_latest_date > r.latest_filing_date_seen

\* get_stale_parsers: the needed parser types, in the order of PARSER_FORM_MAP
GetStaleParsers(log, cik, latest_sec_filings) ==
    LET Needed(p) == IsStale(log, cik, latest_sec_filings, p)
    IN  SelectSeq(ParserFormItems, Needed)

\* "parser_type in stale_parsers"
InList(x, list) == \E j \in 1..Len(list) : list[j] = x

\* How a parser called for one CIK can end: it raises; it returns after writing
\* the date of the newest filing it saw to the processing log; or it returns
\* without touching the log (no filing, nothing usable, or a failure it caught).
\* parse_finhigh has no statement that writes the processing log.
ParserOutcomes(parser_type) ==
    IF parser_type = "finhigh" THEN {"raises", "returns"}
    ELSE {"raises", "returns", "logs"}

\* the outcome a parser has when everything it does succeeds
SucceedsWith(parser_type) == IF parser_type = "finhigh" THEN "returns" ELSE "logs"

\* The activation record of run_all.  arg holds the --limit option and what SEC
\* lists for each CIK; round counts the runs of the command.  For the properties
\* it keeps: visited, the CIKs checked in this run; calls, the parsers called for
\* the CIK last worked on and raised, the one of them that raised; last, how that
\* CIK was counted; clean, the CIKs of this run whose stale parsers all succeeded,
\* and prev_clean, those of the run before.
RunAllCall(limit, sec, log) ==
    [ pc |-> "start", f |-> "run_all", arg |-> [limit |-> limit, sec |-> sec],
      result |-> Null, round |-> 1, ciks |-> <<>>, i |-> 0,
      stale_parsers |-> <<>>, k |-> 0, processed |-> 0, skipped |-> 0, failed |-> 0,
      log |-> log, visited |-> <<>>, calls |-> <<>>, raised |-> "none", ok |-> TRUE,
      last |-> "none", clean |-> {}, prev_clean |-> {} ]

\* the loop over the CIKs ends at the first CIK that fails
RaCountedBreaks(call, how) ==
    [call EXCEPT !.pc = IF how = "failed" THEN "done" ELSE "cik",
                 !.i = @ + 1, !.last = how,
                 !.processed = IF how = "processed" THEN @ + 1 ELSE @,
                 !.skipped   = IF how = "skipped" THEN @ + 1 ELSE @,
                 !.failed    = IF how = "failed" THEN @ + 1 ELSE @,
                 !.clean     = IF how = "processed" /\ call.ok
                               THEN @ \cup {call.ciks[call.i]} ELSE @]

\* the CIK's round of the loop ends and is counted
RaCounted(call, how) ==
    [call EXCEPT !.pc = "cik", !.i = @ + 1, !.last = how,
                 !.processed = IF how = "processed" THEN @ + 1 ELSE @,
                 !.skipped   = IF how = "skipped" THEN @ + 1 ELSE @,
                 !.failed    = IF how = "failed" THEN @ + 1 ELSE @,
                 !.clean     = IF how = "processed" /\ call.ok
                               THEN @ \cup {call.ciks[call.i]} ELSE @]

\* steps 0 to 3 up to the loop: the CIKs are read; without any, the command returns
RaStart ==
    /\ fn.pc = "start" /\ fn.f = "run_all"
    /\ fn' = IF GetAllCiks(fn.arg.limit) = <<>>
             THEN [fn EXCEPT !.pc = "done", !.ciks = <<>>]
             ELSE [fn EXCEPT !.pc = "cik", !.ciks = GetAllCiks(fn.arg.limit), !.i = 1]
    /\ UNCHANGED <<cv, tp, mt, ps, np, store>>

\* the head of a round: the session is opened, SEC is asked for the latest filing
\* dates and the stale parsers are computed; any of this may raise
RaCheck ==
    /\ fn.pc = "cik" /\ fn.f = "run_all"
    /\ fn.i <= Len(fn.ciks)
    /\ \E raises \in BOOLEAN :
          LET cik     == fn.ciks[fn.i]
              stale   == GetStaleParsers(fn.log, cik, fn.arg.sec[cik])
              checked == [fn EXCEPT !.visited = Append(@, cik), !.calls = <<>>,
                                    !.raised = "none", !.ok = TRUE,
                                    !.stale_parsers = IF raises THEN <<>> ELSE stale]
          IN  fn' = IF raises THEN RaCounted(checked, "failed")
                    ELSE IF stale = <<>> THEN RaCounted(checked, "skipped")
                    ELSE [checked EXCEPT !.pc = "parsers", !.k = 1]
    /\ UNCHANGED <<cv, tp, mt, ps, np, store>>

\* one round of "for parser_type in PARSER_ORDER": a parser that is not stale is
\* passed over, a stale one is called
RaParser ==
    /\ fn.pc = "parsers" /\ fn.f = "run_all"
    /\ fn.k <= Len(PARSER_ORDER)
    /\ LET parser_type == PARSER_ORDER[fn.k]
           cik         == fn.ciks[fn.i]
           seen        == fn.arg.sec[cik][PARSER_FORM_MAP[parser_type]]
       IN  IF ~InList(parser_type, fn.stale_parsers)
           THEN fn' = [fn EXCEPT !.k = @ + 1]
           ELSE \E outcome \in ParserOutcomes(parser_type) :
                   LET called == [fn EXCEPT
                                    !.calls = Append(@, parser_type),
                                    !.k = @ + 1,
                                    !.ok = @ /\ outcome = SucceedsWith(parser_type),
                                    !.raised = IF outcome = "raises"
                                               THEN parser_type ELSE @,
                                    !.log = IF outcome = "logs"
                                            THEN UpdateProcessingLog(@, cik,
                                                                     parser_type, seen)
                                            ELSE @]
                   IN  fn' = IF outcome = "raises" THEN RaCounted(called, "failed")
                             ELSE called
    /\ UNCHANGED <<cv, tp, mt, ps, np, store>>

\* edgar_clear_cache(dry_run=False) and "processed += 1", or the clearing raises
RaClearCache ==
    /\ fn.pc = "parsers" /\ fn.f = "run_all"
    /\ fn.k > Len(PARSER_ORDER)
    /\ \E raises \in BOOLEAN :
          fn' = RaCounted(fn, IF raises THEN "failed" ELSE "processed")
    /\ UNCHANGED <<cv, tp, mt, ps, np, store>>

\* step 4, after the last CIK: the summary
RaSummary ==
    /\ fn.pc = "cik" /\ fn.f = "run_all"
    /\ fn.i > Len(fn.ciks)
    /\ fn' = [fn EXCEPT !.pc = "done"]
    /\ UNCHANGED <<cv, tp, mt, ps, np, store>>

\* the command is run again, with the processing log the run before left and
\* with SEC listing what it listed before
RaAgain ==
    /\ fn.pc = "done" /\ fn.f = "run_all"
    /\ fn.round = 1
    /\ fn' = [RunAllCall(fn.arg.limit, fn.arg.sec, fn.log) EXCEPT
                !.round = 2, !.prev_clean = fn.clean]
    /\ UNCHANGED <<cv, tp, mt, ps, np, store>>

-----------------------------------------------------------------------------
(* _process_etf (parsers/nport.py)                                         *)

\* _clean_str: None for None and for "N/A", else the stripped text, None when the
\* value is empty
CleanStr(val) ==
    IF val = PyNone \/ Strip(val) = <<"N","/","A">> THEN PyNone
    ELSE IF val = <<>> THEN PyNone
    ELSE Strip(val)

Investment(name, cusip) == [name |-> name, cusip |-> cusip]

\* _map_investment_to_holding: the columns of the holding that the properties
\* look at
MapInvestmentToHolding(etf_id, investment, report_date) ==
    [ etf_id |-> etf_id, report_date |-> report_date,
      name  |-> IF CleanStr(investment.name) = PyNone THEN <<>>
                ELSE CleanStr(investment.name),
      cusip |-> CleanStr(investment.cusip) ]

\* _process_etf for one ETF and report, called by _process_cik, which then writes
\* the processing log and commits
EtfCall(non_derivatives, filing_date) ==
    [ pc |-> "holdings", f |-> "_process_etf",
      arg |-> [non_derivatives |-> non_derivatives, filing_date |-> filing_date],
      result |-> Null, i |-> 1, holdings |-> <<>>, log |-> {} ]

\* one round of "for investment in fund_report.non_derivatives"
NpAddHolding ==
    /\ fn.pc = "holdings" /\ fn.f = "_process_etf"
    /\ fn.i <= Len(fn.arg.non_derivatives)
    /\ fn' = [fn EXCEPT !.i = @ + 1,
                        !.holdings = Append(@, MapInvestmentToHolding(
                                                 1, fn.arg.non_derivatives[fn.i], 1))]
    /\ UNCHANGED <<cv, tp, mt, ps, np, store>>

\* after the loop, back in _process_cik: update_processing_log and commit
NpUpdateLog ==
    /\ fn.pc = "holdings" /\ fn.f = "_process_etf"
    /\ fn.i > Len(fn.arg.non_derivatives)
    /\ fn' = [fn EXCEPT !.pc = "done",
                        !.log = UpdateProcessingLog(@, "A", "nport",
                                                    fn.arg.filing_date)]
    /\ UNCHANGED <<cv, tp, mt, ps, np, store>>

-----------------------------------------------------------------------------
(* The loop over the filings of _process_cik_finhigh and _process_cik_ncsr  *)
(* on its own: what a filing contributes is any set of pairs of the         *)
(* filer's class ids, so that listings longer than MAX_FILINGS can be run.  *)

\* the filings are examined whatever their number
ScanCountUncapped(listed) == listed

\* num_filings = min(len(filings), MAX_FILINGS)
ScanCount(listed) == MinOf(listed, MAX_FILINGS)

\* The activation record of the loop.  arg holds the parser, the class ids of the
\* filer's ETFs and the number of filings listed.  For the properties it keeps:
\* examined, the indices of the filings fetched, and outcome, how the last round
\* ended.
ScanCall(parser, needed, listed) ==
    [ pc |-> "start", f |-> "filing_scan",
      arg |-> [parser |-> parser, needed |-> needed, listed |-> listed],
      result |-> Null, filing_idx |-> 0, num_filings |-> 0, satisfied |-> {},
      examined |-> <<>>, outcome |-> "none", returns |-> TRUE ]

\* up to the loop: no ETF with a class id, the listing raises, no filing listed,
\* or the loop begins
ScStart ==
    /\ fn.pc = "start" /\ fn.f = "filing_scan"
    /\ \E lists \in BOOLEAN :
          fn' = IF fn.arg.needed = {} \/ (lists /\ fn.arg.listed = 0)
                THEN [fn EXCEPT !.pc = "done"]
                ELSE IF ~lists
                THEN [fn EXCEPT !.pc = "done", !.returns = FALSE]
                ELSE [fn EXCEPT !.pc = "loop",
                                !.num_filings = ScanCount(fn.arg.listed)]
    /\ UNCHANGED <<cv, tp, mt, ps, np, store>>

\* one round of "for filing_idx in range(num_filings)" past the early stop: the
\* filing cannot be loaded (no HTML or the fetch raises; not inline XBRL, no XBRL
\* or its extraction raises) and is passed over, or it is worked through and
\* satisfies some pairs, or a statement outside the inner handlers raises
ScFiling ==
    /\ fn.pc = "loop" /\ fn.f = "filing_scan"
    /\ fn.filing_idx < fn.num_filings
    /\ ~AllSatisfied(fn.arg.needed, fn.satisfied)
    /\ \E outcome \in {"skipped", "worked", "raised"},
          gained \in SUBSET (fn.arg.needed \X {1}) :
          LET fetched == [fn EXCEPT !.examined = Append(@, fn.filing_idx),
                                    !.outcome = outcome]
          IN  fn' = CASE outcome = "skipped" ->
                           [fetched EXCEPT !.filing_idx = @ + 1]
                      [] outcome = "worked" ->
                           [fetched EXCEPT !.filing_idx = @ + 1,
                                           !.satisfied = @ \cup gained]
                      [] outcome = "raised" ->
                           [fetched EXCEPT !.pc = "done", !.returns = FALSE]
    /\ UNCHANGED <<cv, tp, mt, ps, np, store>>

\* the loop ends, by the break of the early stop or after the last filing, and
\* the session is committed
ScEnd ==
    /\ fn.pc = "loop" /\ fn.f = "filing_scan"
    /\ fn.filing_idx >= fn.num_filings \/ AllSatisfied(fn.arg.needed, fn.satisfied)
    /\ \E commits \in BOOLEAN :
          fn' = [fn EXCEPT !.pc = "done", !.outcome = "ended", !.returns = commits]
    /\ UNCHANGED <<cv, tp, mt, ps, np, store>>

-----------------------------------------------------------------------------
(* _process_cik_prospectus (parsers/prospectus.py): the pass over a filer's  *)
(* 485BPOS filings.  A filing is its filing date in days, what filing.html()  *)
(* gives ("page", "empty" or "raises"), whether it carries rr: or oef: tags,  *)
(* and its contexts in the order of context_map: the class id of each and     *)
(* the kinds of value found under it.                                         *)

LOOKBACK_DAYS == 547

FeeKinds == {"fee_expense", "shareholder_fee", "expense_example"}

ProspectusContext(class_id, kinds) == [class_id |-> class_id, kinds |-> kinds]

ProspectusFiling(filing_date, html, tagged, contexts) ==
    [ filing_date |-> filing_date, html |-> html, tagged |-> tagged,
      contexts |-> contexts ]

\* The activation record of the pass.  arg holds class_id_to_etf's keys and the
\* filings listed.  stored holds the upserts made in the session, each the class
\* id, the kind of row and the filing date; they are rolled back when the pass
\* returns False.  For the properties it keeps: consulted, the
\* indices of the filings whose contexts were read.
ProspectusCall(needed, filings) ==
    [ pc |-> "start", f |-> "_process_cik_prospectus",
      arg |-> [needed |-> needed, filings |-> filings],
      result |-> Null, filing_idx |-> 0, satisfied |-> {},
      latest_filing_date |-> NoFilingDate, cutoff_date |-> 0,
      stored |-> {}, consulted |-> {}, log |-> {}, stopped |-> FALSE,
      returns |-> TRUE ]

\* "for context_id, context_data in context_map.items()" from the n-th context
\* on: a context without a class id, of a satisfied class id or of a class id
\* with no ETF is passed over; each kind of row is upserted if any of its values
\* is present; the class id is then added to satisfied
RECURSIVE ProcessContexts(_, _, _, _, _)
ProcessContexts(contexts, n, needed, filing_date, acc) ==
    IF n > Len(contexts) THEN acc
    ELSE LET class_id == contexts[n].class_id
             rows == {[class_id |-> class_id, kind |-> k,
                       filing_date |-> filing_date] : k \in contexts[n].kinds}
         IN  IF \/ ClassIdFalsy(class_id)
                \/ class_id \in acc.satisfied
                \/ class_id \notin needed
             THEN ProcessContexts(contexts, n + 1, needed, filing_date, acc)
             ELSE ProcessContexts(contexts, n + 1, needed, filing_date,
                      [satisfied |-> acc.satisfied \cup {class_id},
                       stored |-> acc.stored \cup rows])

\* up to the loop: no ETF with a class id, the listing raises, no filing listed,
\* or the cutoff date is taken from the first filing
PrStart ==
    /\ fn.pc = "start" /\ fn.f = "_process_cik_prospectus"
    /\ \E lists \in BOOLEAN :
          fn' = IF fn.arg.needed = {} \/ (lists /\ fn.arg.filings = <<>>)
                THEN [fn EXCEPT !.pc = "done"]
                ELSE IF ~lists
                THEN [fn EXCEPT !.pc = "done", !.returns = FALSE]
                ELSE [fn EXCEPT !.pc = "loop",
                                !.cutoff_date = fn.arg.filings[1].filing_date
                                                    - LOOKBACK_DAYS]
    /\ UNCHANGED <<cv, tp, mt, ps, np, store>>

\* one round of "for filing_idx in range(len(filings))" past the early stop
PrFiling ==
    /\ fn.pc = "loop" /\ fn.f = "_process_cik_prospectus"
    /\ ~fn.stopped
    /\ fn.filing_idx < Len(fn.arg.filings)
    /\ fn.arg.needed \ fn.satisfied # {}
    /\ LET filing == fn.arg.filings[fn.filing_idx + 1]
           dated == [fn EXCEPT !.latest_filing_date =
                                   IF @ = NoFilingDate \/ filing.filing_date > @
                                   THEN filing.filing_date ELSE @]
           read == ProcessContexts(filing.contexts, 1, fn.arg.needed,
                                   filing.filing_date,
                                   [satisfied |-> fn.satisfied,
                                    stored |-> fn.stored])
       IN  fn' = IF filing.filing_date < dated.cutoff_date
                 THEN [dated EXCEPT !.stopped = TRUE]
                 ELSE IF filing.html = "raises"
                 THEN [dated EXCEPT !.pc = "done", !.returns = FALSE]
                 ELSE IF filing.html = "empty" \/ ~filing.tagged
                 THEN [dated EXCEPT !.filing_idx = @ + 1]
                 ELSE [dated EXCEPT !.filing_idx = @ + 1,
                                    !.consulted = @ \cup {fn.filing_idx},
                                    !.satisfied = read.satisfied,
                                    !.stored = read.stored]
    /\ UNCHANGED <<cv, tp, mt, ps, np, store>>

\* the loop ends, by one of its breaks or after the last filing; the processing
\* log is updated and the session committed
PrEnd ==
    /\ fn.pc = "loop" /\ fn.f = "_process_cik_prospectus"
    /\ \/ fn.stopped
       \/ fn.filing_idx >= Len(fn.arg.filings)
       \/ fn.arg.needed \ fn.satisfied = {}
    /\ fn' = [fn EXCEPT !.pc = "done",
                        !.log = IF fn.latest_filing_date # NoFilingDate
                                THEN UpdateProcessingLog(@, "A", "prospectus",
                                                         fn.latest_filing_date)
                                ELSE @]
    /\ UNCHANGED <<cv, tp, mt, ps, np, store>>

-----------------------------------------------------------------------------
(* Calls of the helper functions                                           *)

\* a call of the function named f on arg, about to run, and the call returned
FnCall(f, arg) == [pc |-> "call", f |-> f, arg |-> arg, result |-> Null]

FnIdle == [pc |-> "idle", f |-> "none", arg |-> <<>>, result |-> Null]

FnReturn(call, result) == [call EXCEPT !.pc = "done", !.result = result]

\* the loop of parse_financial_highlights_table that finds the fiscal year end
FnFiscalYearEnd ==
    /\ fn.pc = "call" /\ fn.f = "fiscal_year_end"
    /\ fn' = FnReturn(fn, FiscalYearEndFrom(fn.arg, 1))
    /\ UNCHANGED <<cv, tp, mt, ps, np, store>>

\* _parse_decimal(value) of finhigh.py
FnParseDecimal ==
    /\ fn.pc = "call" /\ fn.f = "_parse_decimal"
    /\ fn' = FnReturn(fn, ParseDecimal(fn.arg))
    /\ UNCHANGED <<cv, tp, mt, ps, np, store>>

FnParseSeriesClassInfo ==
    /\ fn.pc = "call" /\ fn.f = "parse_series_class_info"
    /\ fn' = FnReturn(fn, ParseSeriesClassInfo(fn.arg))
    /\ UNCHANGED <<cv, tp, mt, ps, np, store>>

\* The header texts the parser is called on: one tag to a line, as in the SGML
\* headers of EDGAR; None stands for a line that is left out.
Line(tag, value) == tag \o value \o <<NewLine>>

OptLine(tag, value) == IF value = PyNone THEN <<>> ELSE Line(tag, value)

ClassText(id, name, ticker) ==
    Line(<<"<","C","L","A","S","S","-","C","O","N","T","R","A","C","T",">">>, <<>>)
    \o OptLine(<<"<","C","L","A","S","S","-","C","O","N","T","R","A","C","T","-","I","D",">">>, id)
    \o OptLine(<<"<","C","L","A","S","S","-","C","O","N","T","R","A","C","T","-","N","A","M","E",">">>, name)
    \o OptLine(<<"<","C","L","A","S","S","-","C","O","N","T","R","A","C","T","-","T","I","C","K","E","R","-","S","Y","M","B","O","L",">">>, ticker)
    \o Line(<<"<","/","C","L","A","S","S","-","C","O","N","T","R","A","C","T",">">>, <<>>)

SeriesText(id, name, classes) ==
    Line(<<"<","S","E","R","I","E","S",">">>, <<>>)
    \o Line(<<"<","O","W","N","E","R","-","C","I","K",">">>, <<"0","0","0","0","0","3","6","4","0","5">>)
    \o OptLine(<<"<","S","E","R","I","E","S","-","I","D",">">>, id)
    \o OptLine(<<"<","S","E","R","I","E","S","-","N","A","M","E",">">>, name)
    \o classes
    \o Line(<<"<","/","S","E","R","I","E","S",">">>, <<>>)

HeaderText(body) ==
    Line(<<"<","S","E","C","-","H","E","A","D","E","R",">">>, <<>>) \o Line(<<"<","T","Y","P","E",">">>, <<"N","-","C","S","R">>) \o body
    \o Line(<<"<","/","S","E","C","-","H","E","A","D","E","R",">">>, <<>>)

\* a first series with every choice of fields present and missing
SgmlClassTexts ==
    { ClassText(id, name, ticker) :
        id \in {PyNone, <<"C","1">>}, name \in {PyNone, <<"E","T","F"," ","S","h","a","r","e","s">>},
        ticker \in {PyNone, <<"B","N","D">>, <<" ">>} }
    \cup { <<>> }

SgmlFirstSeries ==
    { SeriesText(id, name, classes) :
        id \in {PyNone, <<"S","1">>, <<" ">>}, name \in {PyNone, <<"B","o","n","d"," ","F","u","n","d">>},
        classes \in SgmlClassTexts }

\* a second series: none; another series; the same series id, class name or
\* ticker once more; two classes
SgmlSecondSeries ==
    { <<>>,
      SeriesText(<<"S","2">>, <<"B","o","n","d"," ","F","u","n","d"," ","I","I">>, ClassText(<<"C","2">>, <<"A","d","m","i","r","a","l"," ","S","h","a","r","e","s">>, <<"B","N","D","X">>)),
      SeriesText(<<"S","1">>, <<"B","o","n","d"," ","I","n","d","e","x">>, ClassText(<<"C","2">>, <<"E","T","F"," ","S","h","a","r","e","s">>, <<"B","N","D">>)),
      SeriesText(<<"S","2">>, <<"b","o","n","d"," ","f","u","n","d">>, ClassText(<<"C","2">>, <<"e","t","f"," ","s","h","a","r","e","s">>, PyNone)
                                 \o ClassText(<<"C","3">>, PyNone, <<"B","N","D">>)),
      SeriesText(PyNone, PyNone, ClassText(<<"C","2">>, <<"E","T","F"," ","S","h","a","r","e","s">>, <<"B","N","D","X">>)) }

\* texts that are no well-formed header
SgmlOtherTexts ==
    { PyNone, <<>>, <<" ">>,
      <<"<","S","E","R","I","E","S",">","<","S","E","R","I","E","S","-","I","D",">","S","1","<","S","E","R","I","E","S","-","N","A","M","E",">","B","o","n","d"," ","F","u","n","d","<","/","S","E","R","I","E","S",">">>,
      <<"<","S","E","R","I","E","S",">","<","S","E","R","I","E","S","-","N","A","M","E",">","B","o","n","d"," ","F","u","n","d","<","S","E","R","I","E","S","-","I","D",">","S","1","<","/","S","E","R","I","E","S",">">>,
      Line(<<"<","S","E","R","I","E","S",">">>, <<>>) \o Line(<<"<","S","E","R","I","E","S","-","I","D",">">>, <<"S","1">>) \o Line(<<"<","S","E","R","I","E","S","-","N","A","M","E",">">>, <<"B","o","n","d"," ","F","u","n","d">>),
      Line(<<"<","S","E","R","I","E","S",">">>, <<>>) \o Line(<<"<","S","E","R","I","E","S","-","N","A","M","E",">">>, <<"B","o","n","d","<","F","u","n","d">>)
          \o Line(<<"<","S","E","R","I","E","S","-","I","D",">">>, <<" ","S","1"," ">>) \o <<"<","/","S","E","R","I","E","S",">">>,
      Line(<<"<","S","E","R","I","E","S",">">>, <<>>) \o Line(<<"<","S","E","R","I","E","S","-","N","A","M","E",">">>, <<"B","o","n","d"," ","F","u","n","d">>)
          \o Line(<<"<","C","L","A","S","S","-","C","O","N","T","R","A","C","T",">">>, <<>>) \o Line(<<"<","C","L","A","S","S","-","C","O","N","T","R","A","C","T","-","I","D",">">>, <<"C","1">>)
          \o Line(<<"<","C","L","A","S","S","-","C","O","N","T","R","A","C","T","-","T","I","C","K","E","R","-","S","Y","M","B","O","L",">">>, <<"B","N","D">>) \o <<"<","/","S","E","R","I","E","S",">">> }

SgmlHeaders ==
    { HeaderText(a \o b) : a \in SgmlFirstSeries, b \in SgmlSecondSeries }
    \cup SgmlOtherTexts

FnParseContexts ==
    /\ fn.pc = "call" /\ fn.f = "parse_contexts"
    /\ fn' = FnReturn(fn, ParseContexts(fn.arg, Len(fn.arg)))
    /\ UNCHANGED <<cv, tp, mt, ps, np, store>>

\* one round of the row loop of parse_financial_highlights_table: get_row_label
\* of the row's cells and the role the if/elif chain gives the label
FnClassify ==
    /\ fn.pc = "call" /\ fn.f = "classify"
    /\ fn' = FnReturn(fn, ClassifyLabel(RowLabel(fn.arg)))
    /\ UNCHANGED <<cv, tp, mt, ps, np, store>>

\* The rows the loop is run on: the first cell is one of the phrases of the labels
\* of a financial highlights table, or two of them one after the other.
LabelPhrases ==
    { <<"N","e","t"," ","A","s","s","e","t"," ","V","a","l","u","e",",">>, <<"E","n","d"," ","o","f"," ","P","e","r","i","o","d">>, <<"B","e","g","i","n","n","i","n","g"," ","o","f"," ","P","e","r","i","o","d">>,
      <<"N","e","t"," ","I","n","v","e","s","t","m","e","n","t"," ","I","n","c","o","m","e">>, <<"R","a","t","i","o"," ","o","f">>, <<"D","i","v","i","d","e","n","d","s"," ","f","r","o","m">>, <<"D","i","s","t","r","i","b","u","t","i","o","n","s"," ","f","r","o","m">>,
      <<"N","e","t"," ","R","e","a","l","i","z","e","d"," ","a","n","d"," ","U","n","r","e","a","l","i","z","e","d"," ","G","a","i","n">>, <<"T","o","t","a","l"," ","f","r","o","m"," ","I","n","v","e","s","t","m","e","n","t"," ","O","p","e","r","a","t","i","o","n","s">>,
      <<"E","q","u","a","l","i","z","a","t","i","o","n">>, <<"R","e","a","l","i","z","e","d"," ","C","a","p","i","t","a","l"," ","G","a","i","n","s">>, <<"R","e","t","u","r","n"," ","o","f"," ","C","a","p","i","t","a","l">>,
      <<"T","o","t","a","l"," ","D","i","s","t","r","i","b","u","t","i","o","n","s">>, <<"T","o","t","a","l"," ","R","e","t","u","r","n">>, <<"N","e","t"," ","A","s","s","e","t","s",",">>,
      <<"N","e","t"," ","A","s","s","e","t","s",","," ","E","n","d"," ","o","f"," ","P","e","r","i","o","d"," ","(","M","i","l","l","i","o","n","s",")">>,
      <<"R","a","t","i","o"," ","o","f"," ","E","x","p","e","n","s","e","s"," ","t","o"," ","A","v","e","r","a","g","e"," ","N","e","t"," ","A","s","s","e","t","s">>, <<"P","o","r","t","f","o","l","i","o"," ","T","u","r","n","o","v","e","r"," ","R","a","t","e">>, <<"C","r","e","d","i","t","s">> }

ClassifyRows ==
    { << p, <<"1",".","0","0">> >> : p \in LabelPhrases }
    \cup { << p \o <<" ">> \o q, <<"1",".","0","0">> >> : p \in LabelPhrases, q \in LabelPhrases }
    \cup { << >>, << <<" "," ">> >> }

\* The values _parse_decimal is called on: plain literals, each of them also in
\* parentheses, with a dollar sign, with a percent sign and in combinations of
\* these, and texts that are no number.
PlainLiterals ==
    { <<"7">>, <<"-","7">>, <<"0">>, <<"1",".","2","3">>, <<".","5">>, <<"1","4",".","1","0">>, <<"0",".","1","7">>, <<"-","1","7",".","7","1">>, <<"1","2",".","1","0">>, <<"1","0","0">>,
      <<"1",",","2","3","4",".","5","6">>, <<"1",",","2","0","0">>, <<"7","E","-","1">>, <<"+","3">>, <<"0",".","0","5">>, <<"2","5","0",".","0","0">> }

Decorated(x) ==
    { x, <<"(">> \o x \o <<")">>, <<"(","$">> \o x \o <<")">>, <<"$">> \o x, x \o <<"%">>,
      <<"(">> \o x \o <<")","%">>, <<"(">> \o x \o <<"%",")">>, <<" ","(">> \o x \o <<")"," ">> }

ParseTexts ==
    UNION {Decorated(x) : x \in PlainLiterals}
    \cup { PyNone, <<>>, <<"-">>, <<EmDash>>, <<EnDash>>, <<"$">>, <<" ","7"," ">>, <<"N","/","A">>, <<"n","/","a">>, <<"%">>, <<"(",")">>, <<"(","7">>, <<"7",")">>, <<"(","(","7",")",")">>,
           <<"7","%","%">>, <<"N","a","N">>, <<"s","N","a","N">>, <<"(","s","N","a","N",")">>, <<"I","n","f","i","n","i","t","y">>, <<"(","I","n","f","i","n","i","t","y",")">>, <<"a","b","c">>, <<"1",".","2",".","3">> }

-----------------------------------------------------------------------------
(* Specifications                                                          *)

\* every call of convert_numeric_value on an element text (or no element) and
\* its scale, format and sign attributes
InitConv ==
    /\ cv \in {ConvCall(el, scale, fmt, sign, neg) :
                  el \in ConvTexts \cup {PyNone}, scale \in ConvScales,
                  fmt \in ConvFormats, sign \in ConvSigns, neg \in BOOLEAN}
    /\ tp = TableIdle
    /\ mt = MatchIdle
    /\ ps = PassIdle
    /\ np = NcsrOff
    /\ fn = FnIdle
    /\ store = EmptyStore

NextConv ==
    \/ CnvEnter
    \/ CnvFormat
    \/ CnvClean
    \/ CnvParse
    \/ CnvSign
    \/ CnvScale
    \/ CnvNegate
    \/ CnvReturn

SpecConv == InitConv /\ [][NextConv]_vars

\* every call of parse_financial_highlights_table on a table of TableInputs or
\* on HTML without a table
InitTable ==
    /\ tp \in {TableCall(TRUE, rows) : rows \in TableInputs} \cup {TableCall(FALSE, <<>>)}
    /\ cv = ConvIdle
    /\ mt = MatchIdle
    /\ ps = PassIdle
    /\ np = NcsrOff
    /\ fn = FnIdle
    /\ store = EmptyStore

NextTable ==
    \/ TblCheck
    \/ TblDate
    \/ TblClassify
    \/ TblExtract
    \/ TblValidate

SpecTable == InitTable /\ [][NextTable]_vars

\* a pass of _process_cik_finhigh over a filer, on each of the prior databases, or
\* a pass of _process_cik_ncsr over a filer
InitPass ==
    /\ \/ ps = PassIdle /\ np = NcsrOff /\ store \in PriorStores
       \/ ps = PassOff /\ np = NcsrIdle /\ store = EmptyStore
    /\ fn = FnIdle
    /\ cv = ConvIdle
    /\ tp = TableIdle
    /\ mt = MatchIdle

NextPass ==
    \/ PassStart
    \/ PassFiling
    \/ PassTable
    \/ PassCommit
    \/ NcsrStart
    \/ NcsrFiling
    \/ NcsrClass
    \/ NcsrCommit

SpecPass == InitPass /\ [][NextPass]_vars

\* every reconciliation of a fund name and class label against a mapping
InitMatch ==
    /\ mt \in {MatchCall(m, f, c) : m \in PassMappings, f \in MatchFunds, c \in MatchLabels}
    /\ cv = ConvIdle
    /\ tp = TableIdle
    /\ ps = PassIdle
    /\ np = NcsrOff
    /\ fn = FnIdle
    /\ store = EmptyStore

NextMatch == MtMatch

SpecMatch == InitMatch /\ [][NextMatch]_vars

\* every call of _parse_decimal on a value of ParseTexts
InitParse ==
    /\ fn \in {FnCall("_parse_decimal", v) : v \in ParseTexts}
    /\ cv = ConvIdle
    /\ tp = TableIdle
    /\ mt = MatchIdle
    /\ ps = PassIdle
    /\ np = NcsrOff
    /\ store = EmptyStore

NextParse == FnParseDecimal

SpecParse == InitParse /\ [][NextParse]_vars

\* every classification of a row of ClassifyRows
InitClassify ==
    /\ fn \in {FnCall("classify", row) : row \in ClassifyRows}
    /\ cv = ConvIdle
    /\ tp = TableIdle
    /\ mt = MatchIdle
    /\ ps = PassIdle
    /\ np = NcsrOff
    /\ store = EmptyStore

NextClassify == FnClassify

SpecClassify == InitClassify /\ [][NextClassify]_vars

\* The documents that are indexed: up to MaxElements elements, among them
\* elements with the same name and context, elements without a name or without
\* a context, and an element that is no iXBRL tag.
MaxElements == 3

TagElements ==
    { Element("ix:nonfraction", <<"r","r",":","A">>, <<"c","1">>, PyNone, PyNone, PyNone, PyNone, <<"0",".","1","7">>),
      Element("ix:nonfraction", <<"r","r",":","A">>, <<"c","1">>, PyNone, PyNone, <<"-">>, PyNone, <<"0",".","2","5">>),
      Element("ix:nonnumeric", <<"r","r",":","A">>, <<"c","1">>, PyNone, PyNone, PyNone, <<"t","r","u","e">>, <<" ","B","o","n","d"," "," ","F","u","n","d"," ">>),
      Element("ix:nonfraction", <<"r","r",":","A">>, <<"c","2">>, <<"-","2">>, PyNone, PyNone, PyNone, <<"7">>),
      Element("ix:nonfraction", <<>>, <<"c","1">>, PyNone, PyNone, PyNone, PyNone, <<"9">>),
      Element("ix:nonnumeric", <<"r","r",":","B">>, PyNone, PyNone, PyNone, PyNone, PyNone, <<" ","I","n","d","e","x"," "," ","F","u","n","d"," ">>),
      Element("div", <<"r","r",":","A">>, <<"c","1">>, PyNone, PyNone, PyNone, PyNone, <<"5">>) }

TagSoups == UNION { [1..n -> TagElements] : n \in 0..MaxElements }

InitTag ==
    /\ fn \in { TagCall(soup, tag_name, context_id, negate_to_positive) :
                  soup \in TagSoups, tag_name \in {<<"r","r",":","A">>, <<"r","r",":","B">>},
                  context_id \in {<<"c","1">>, <<"c","2">>}, negate_to_positive \in BOOLEAN }
    /\ cv = ConvIdle
    /\ tp = TableIdle
    /\ mt = MatchIdle
    /\ ps = PassIdle
    /\ np = NcsrOff
    /\ store = EmptyStore

NextTag == TgBuildTagIndex \/ TgExtractFromIndex \/ TgExtractFromSoup

SpecTag == InitTag /\ [][NextTag]_vars

\* The documents parse_contexts is called on: one context with every choice of
\* id, identifier and segment, and two contexts with the same or different ids.
ContextIds == { PyNone, <<>>, <<"c","1">>, <<"c","2">> }

ContextIdentifiers ==
    { PyNone, <<>>, <<" ">>, <<"1","3","1","4","6","1","2">>, <<"0","0","0","1","3","1","4","6","1","2">>, <<" ","3","6","4","0","5"," ">>, <<"C","I","K","3","6","4","0","5">>, <<"3","6","4","0","5",".","0">> }

ContextSegments ==
    { NoSegment, Segment(<<>>),
      Segment(<< Member(<<"d","e","i",":","L","e","g","a","l","E","n","t","i","t","y","A","x","i","s">>, <<"r","r","0","1",":","S","0","0","0","0","1","4","7","9","6","M","e","m","b","e","r">>) >>),
      Segment(<< Member(<<"d","e","i",":","L","e","g","a","l","E","n","t","i","t","y","A","x","i","s">>, <<"s","0","0","0","0","1","4","7","9","6","m","e","m","b","e","r">>),
                 Member(<<"r","r",":","P","r","o","s","p","e","c","t","u","s","S","h","a","r","e","C","l","a","s","s","A","x","i","s">>, <<" ","C","0","0","0","0","1","4","5","4","2","M","e","m","b","e","r"," ">>) >>),
      Segment(<< Member(<<"o","e","f",":","C","l","a","s","s","A","x","i","s">>, <<"C","1","M","e","m","b","e","r">>), Member(<<"o","e","f",":","C","l","a","s","s","A","x","i","s">>, <<"C","M","e","m","b","e","r">>),
                 Member(PyNone, <<"S","2","M","e","m","b","e","r">>) >>),
      Segment(<< Member(<<"d","e","i",":","L","e","g","a","l","E","n","t","i","t","y","A","x","i","s">>, <<"C","0","0","0","0","1","4","5","4","2","M","e","m","b","e","r">>),
                 Member(<<"r","r",":","P","r","o","s","p","e","c","t","u","s","S","h","a","r","e","C","l","a","s","s","A","x","i","s">>, <<"S","C","1","2","M","e","m","b","e","r","s">>) >>) }

ContextsOne ==
    { Context(id, identifier, segment) :
        id \in ContextIds, identifier \in ContextIdentifiers,
        segment \in ContextSegments }

ContextsTwo ==
    { Context(id, identifier, segment) :
        id \in {<<"c","1">>, <<"c","2">>}, identifier \in {PyNone, <<"1","3","1","4","6","1","2">>, <<"C","I","K","3","6","4","0","5">>},
        segment \in {NoSegment,
                     Segment(<< Member(<<"d","e","i",":","L","e","g","a","l","E","n","t","i","t","y","A","x","i","s">>, <<"S","0","0","0","0","1","4","7","9","6","M","e","m","b","e","r">>) >>)} }

ContextSoups ==
    { <<>> } \cup { <<c>> : c \in ContextsOne }
    \cup { <<c, d>> : c \in ContextsTwo, d \in ContextsTwo }

InitContexts ==
    /\ fn \in {FnCall("parse_contexts", soup) : soup \in ContextSoups}
    /\ cv = ConvIdle
    /\ tp = TableIdle
    /\ mt = MatchIdle
    /\ ps = PassIdle
    /\ np = NcsrOff
    /\ store = EmptyStore

NextContexts == FnParseContexts

SpecContexts == InitContexts /\ [][NextContexts]_vars

\* The CIKs that are loaded: one or two ETFs with or without series id, and for
\* each filing type one of the outcomes, the headers naming series S1, S2 and S3,
\* S1 under two names.
LoadEntry(ticker, series_id) == [ticker |-> ticker, series_id |-> series_id]

LoadEntries ==
    { << LoadEntry(<<"B","N","D">>, <<"S","1">>) >>,
      << LoadEntry(<<"B","N","D">>, <<"S","1">>), LoadEntry(<<"B","N","D","X">>, <<"S","2">>) >>,
      << LoadEntry(<<"B","N","D">>, PyNone) >>,
      << LoadEntry(<<"V","T","V">>, <<"S","3">>), LoadEntry(<<"B","N","D">>, <<"S","1">>) >> }

LoadDocs ==
    { NoFilings, GetFilingsRaises, NoHeader,
      HeaderText(SeriesText(<<"S","1">>, <<"B","o","n","d"," ","F","u","n","d">>, <<>>)),
      HeaderText(SeriesText(<<"S","1">>, <<"B","o","n","d"," ","I","n","d","e","x">>, <<>>)
                 \o SeriesText(<<"S","2">>, <<"B","o","n","d"," ","F","u","n","d"," ","I","I">>, <<>>)),
      HeaderText(SeriesText(<<"S","2">>, <<"G","r","o","w","t","h"," ","F","u","n","d">>, <<>>)
                 \o SeriesText(<<"S","3">>, <<"V","a","l","u","e"," ","F","u","n","d">>, <<>>)) }

\* What SEC lists for a CIK: the date of the newest filing of each form
SecNothing == [form \in FormTypes |-> NoFilingDate]

SecListings ==
    { SecNothing,
      [form \in FormTypes |-> 2],
      [SecNothing EXCEPT !["NPORT-P"] = 2, !["24F-2NT"] = 1],
      [SecNothing EXCEPT !["N-CSR"] = 2],
      [SecNothing EXCEPT !["485BPOS"] = 1, !["24F-2NT"] = 2] }

\* The processing log before the first run: empty, or the rows earlier runs left
RunAllLogs ==
    { {},
      {LogRow("A", p, 1) : p \in ParserTypes},
      {LogRow("A", "flows", 2), LogRow("A", "nport", 2), LogRow("B", "ncsr", 1)},
      {LogRow(c, p, 2) : c \in Filers, p \in ParserTypes \ {"prospectus"}} }

MaxLimit == 2

InitRunAll ==
    /\ fn \in { RunAllCall(limit, sec, log) :
                  limit \in {NoLimit} \cup {<<n>> : n \in 0..MaxLimit},
                  sec \in [Filers -> SecListings],
                  log \in RunAllLogs }
    /\ cv = ConvIdle
    /\ tp = TableIdle
    /\ mt = MatchIdle
    /\ ps = PassIdle
    /\ np = NcsrOff
    /\ store = EmptyStore

NextRunAll ==
    \/ RaStart
    \/ RaCheck
    \/ RaParser
    \/ RaClearCache
    \/ RaSummary
    \/ RaAgain

SpecRunAll == InitRunAll /\ [][NextRunAll]_vars

\* The investments of a report: securities with a CUSIP, with "N/A" or without
MaxInvestments == 3

NportCusips == { <<"0","3","7","8","3","3","1","0","0">>, <<"5","9","4","9","1","8","1","0","4">>, <<" ","0","3","7","8","3","3","1","0","0">>, <<"N","/","A">>, PyNone }

NportInvestments ==
    { Investment(name, cusip) : name \in {<<"A","p","p","l","e">>, <<"B","o","n","d">>}, cusip \in NportCusips }

NportReports ==
    UNION { [1..n -> NportInvestments] : n \in 0..MaxInvestments }

InitNport ==
    /\ fn \in { EtfCall(non_derivatives, 2) : non_derivatives \in NportReports }
    /\ cv = ConvIdle
    /\ tp = TableIdle
    /\ mt = MatchIdle
    /\ ps = PassIdle
    /\ np = NcsrOff
    /\ store = EmptyStore

NextNport == NpAddHolding \/ NpUpdateLog

SpecNport == InitNport /\ [][NextNport]_vars

\* The listings of the loop over the filings: up to one more than MAX_FILINGS
MaxScanListed == 11

InitScan ==
    /\ fn \in { ScanCall(parser, needed, listed) :
                  parser \in {"finhigh", "ncsr"},
                  needed \in {{}, {"C1"}, {"C1", "C2"}},
                  listed \in 0..MaxScanListed }
    /\ cv = ConvIdle
    /\ tp = TableIdle
    /\ mt = MatchIdle
    /\ ps = PassIdle
    /\ np = NcsrOff
    /\ store = EmptyStore

NextScan == ScStart \/ ScFiling \/ ScEnd

\* the loop runs in one thread that takes its next step whenever it has one
SpecScan == InitScan /\ [][NextScan]_vars /\ WF_vars(NextScan)

\* The head of a table: up to MaxFiller rows without a date, then up to three
\* rows that hold a slash date that parses or does not, a "Year Ended" phrase
\* with a day its month has or has not, the years, or no date
MaxFiller == 5

DateRowChoices ==
    { <<<<"P","e","r"," ","S","h","a","r","e"," ","D","a","t","a">>>>,
      <<<<"Y","e","a","r"," ","E","n","d","e","d"," ","1","2","/","3","1","/","2","0","2","4">>, <<>>>>,
      <<<<"P","e","r","i","o","d"," ","f","r","o","m"," ","1","3","/","4","5","/","2","0","2","4">>>>,
      <<<<"Y","e","a","r"," ","E","n","d","e","d"," ","A","u","g","u","s","t"," ","3","1",",">>>>,
      <<<<"Y","e","a","r"," ","E","n","d","e","d"," ","F","e","b","r","u","a","r","y"," ","3","0",",">>>>,
      <<<<>>, <<"2","0","2","4">>, <<"2","0","2","3">>>> }

DateHeads ==
    UNION { [1..n -> DateRowChoices] : n \in 0..3 }

DateTables ==
    { [j \in 1..filler |-> <<<<"P","e","r"," ","S","h","a","r","e"," ","D","a","t","a">>>>] \o head :
        filler \in 0..MaxFiller, head \in DateHeads }

InitDate ==
    /\ fn \in {FnCall("fiscal_year_end", rows) : rows \in DateTables}
    /\ cv = ConvIdle
    /\ tp = TableIdle
    /\ mt = MatchIdle
    /\ ps = PassIdle
    /\ np = NcsrOff
    /\ store = EmptyStore

NextDate == FnFiscalYearEnd

SpecDate == InitDate /\ [][NextDate]_vars

\* The 485BPOS filings of a filer with the class ids C1 and C2: up to
\* MaxProspectus filings, newest first, the later ones inside the 18-month window
\* or outside it; the contexts of a filing are one of the lists below, in which
\* "C9" is a class id no ETF has
MaxProspectus == 2

ProspectusContextLists ==
    { <<>>,
      <<ProspectusContext("C1", {}), ProspectusContext("C2", {"fee_expense"})>>,
      <<ProspectusContext("C1", {"fee_expense", "expense_example"}),
        ProspectusContext("C2", {"shareholder_fee"})>>,
      <<ProspectusContext("C1", {"fee_expense"})>>,
      <<ProspectusContext("C1", {}), ProspectusContext("C1", {"fee_expense"})>>,
      <<ProspectusContext(NoClassId, {}), ProspectusContext("C9", {"fee_expense"}),
        ProspectusContext("C2", {"expense_example"})>>,
      <<ProspectusContext("C2", {}), ProspectusContext("C1", {})>> }

ProspectusPages ==
    {[html |-> "page", tagged |-> TRUE, contexts |-> c] :
        c \in ProspectusContextLists}
      \cup {[html |-> "page", tagged |-> FALSE, contexts |-> <<>>],
            [html |-> "empty", tagged |-> FALSE, contexts |-> <<>>],
            [html |-> "raises", tagged |-> FALSE, contexts |-> <<>>]}

\* the filing date of the k-th filing listed, inside the window or outside
ProspectusDate(k, inside) ==
    IF inside THEN 1000 - 100 * (k - 1) ELSE 1000 - LOOKBACK_DAYS - k

ProspectusListings ==
    UNION { { [k \in 1..n |->
                 ProspectusFiling(ProspectusDate(k, k = 1 \/ inside[k]),
                                  pages[k].html, pages[k].tagged,
                                  pages[k].contexts)] :
              pages \in [1..n -> ProspectusPages],
              inside \in [1..n -> BOOLEAN] } : n \in 0..MaxProspectus }

InitProspectus ==
    /\ fn \in {ProspectusCall(needed, filings) :
                  needed \in {{}, {"C1", "C2"}},
                  filings \in ProspectusListings}
    /\ cv = ConvIdle
    /\ tp = TableIdle
    /\ mt = MatchIdle
    /\ ps = PassIdle
    /\ np = NcsrOff
    /\ store = EmptyStore

NextProspectus == PrStart \/ PrFiling \/ PrEnd

SpecProspectus == InitProspectus /\ [][NextProspectus]_vars

InitLoad ==
    /\ fn \in { LoadCall(entries, <<"V","a","n","g","u","a","r","d">>, docs) :
                  entries \in LoadEntries,
                  docs \in [1..Len(filing_types) -> LoadDocs] }
    /\ cv = ConvIdle
    /\ tp = TableIdle
    /\ mt = MatchIdle
    /\ ps = PassIdle
    /\ np = NcsrOff
    /\ store = EmptyStore

NextLoad == LdFilingType \/ LdUpsert

SpecLoad == InitLoad /\ [][NextLoad]_vars

\* every call of parse_series_class_info on a text of SgmlHeaders
InitSgml ==
    /\ fn \in {FnCall("parse_series_class_info", text) : text \in SgmlHeaders}
    /\ cv = ConvIdle
    /\ tp = TableIdle
    /\ mt = MatchIdle
    /\ ps = PassIdle
    /\ np = NcsrOff
    /\ store = EmptyStore

NextSgml == FnParseSeriesClassInfo

SpecSgml == InitSgml /\ [][NextSgml]_vars

-----------------------------------------------------------------------------
(* Properties of parse_financial_highlights_table                          *)

\* the four operands the validation requires
RequiredOperands == {"nav_beginning", "total_from_operations", "dist_total", "nav_end"}

\* the equalization as it enters the sum: 0 for a null
EqualizationInSum ==
    IF tp.values["equalization"] = Null THEN DecZero ELSE tp.values["equalization"]

SumOperands ==
    {tp.values[f] : f \in RequiredOperands} \cup {EqualizationInSum}

\* the smallest exponent among the operands and the tolerance 0.01
SumExp ==
    CHOOSE e \in {d.e : d \in SumOperands} \cup {-2} :
        \A x \in {d.e : d \in SumOperands} \cup {-2} : e <= x

\* a finite operand as a signed integer number of units of 10^SumExp
InUnits(d) == (IF d.s = 1 THEN -1 ELSE 1) * d.c * Pow10(d.e - SumExp)

\* |nav_beginning + total_from_operations + dist_total + equalization - nav_end| <= 0.01
WithinTolerance ==
    /\ \A d \in SumOperands : d.k = "fin"
    /\ LET diff == InUnits(tp.values["nav_beginning"])
                   + InUnits(tp.values["total_from_operations"])
                   + InUnits(tp.values["dist_total"])
                   + InUnits(EqualizationInSum)
                   - InUnits(tp.values["nav_end"])
       IN  diff <= Pow10(-2 - SumExp) /\ -diff <= Pow10(-2 - SumExp)

TableSteps == {tp.steps[i] : i \in 1..Len(tp.steps)}

\* C4: an input without a table or with fewer than 10 rows is rejected with a
\* failure and no record, by a check that precedes every classification and
\* extraction; a table of 10 or more rows is never rejected by that check.
C4_RejectedFirst ==
    /\ tp.raised \in {"NoTable", "TooFewRows"} =>
          /\ tp.pc = "raised"
          /\ ~tp.hasTable \/ Len(tp.rows) < 10
          /\ tp.steps = <<"check">>
          /\ tp.row_map = NoRowMap /\ tp.values = NoValues /\ tp.fye = NoDate
    /\ (tp.steps # <<>> /\ (~tp.hasTable \/ Len(tp.rows) < 10)) =>
          tp.raised = (IF tp.hasTable THEN "TooFewRows" ELSE "NoTable")
    /\ (TableSteps \cap {"classify", "extract", "validate"} # {}) =>
          tp.hasTable /\ Len(tp.rows) >= 10

\* a table of nine rows is rejected
C4_Witness ==
    /\ tp.pc = "raised" /\ tp.raised = "TooFewRows"
    /\ tp.hasTable /\ Len(tp.rows) = 9

\* C5 (as specified): the table parser raises nothing but its two precondition
\* failures: a table of at least 10 rows holding any cell text is parsed to a result.
C5_TableTotal == tp.raised \in {"none", "NoTable", "TooFewRows"}

-----------------------------------------------------------------------------
(* Properties of the reconciliation and of the pass                        *)

\* the pass is under way, or has ended with its commit
PassHolds == ps.pc \in {"filing", "table", "commit"} \/ (ps.pc = "done" /\ ps.result)

NcsrHolds == np.pc \in {"filing", "class", "commit"} \/ (np.pc = "done" /\ np.result)

\* C2: within a pass each (class id, fiscal year end) pair is stored from at most
\* one table or fact set, the first in processing order that got as far as the
\* satisfied check: the pair's rows are written once, every later table or fact set
\* of the pair is skipped, and the rows stay those of the first one.
C2_FirstWins ==
    /\ PassHolds =>
          /\ DOMAIN ps.first = ps.satisfied
          /\ DOMAIN ps.writes = ps.satisfied
          /\ \A pair \in ps.satisfied :
                LET etf_id == EtfOf(ps.cik, pair[1])
                IN  /\ ps.writes[pair] = 1
                    /\ RowsOf(store.live.operating, etf_id, pair[2])
                          = {OperatingRow(etf_id, ps.first[pair])}
                    /\ RowsOf(store.live.distribution, etf_id, pair[2])
                          = {DistributionRow(etf_id, ps.first[pair])}
                    /\ RowsOf(store.live.ratios, etf_id, pair[2])
                          = {RatiosRow(etf_id, ps.first[pair])}
    /\ NcsrHolds =>
          /\ DOMAIN np.first = np.satisfied
          /\ DOMAIN np.writes = np.satisfied
          /\ \A key \in np.satisfied :
                LET etf_id == NcsrEtfOf(np.cik, key[1])
                IN  /\ np.writes[key] = 1
                    /\ RowsOf(store.live.performance, etf_id, key[2])
                          = {PerformanceRow(etf_id, key[2], np.first[key].filing_date,
                                            np.first[key].facts)}

\* a pass that stored a pair from its first table and skipped a later table of the
\* same pair that held other data
C2_Witness ==
    /\ ps.pc = "done" /\ ps.result
    /\ \E pair \in ps.skipped :
          /\ pair \in ps.satisfied
          /\ ps.writes[pair] = 1
          /\ OperatingRow(EtfOf(ps.cik, pair[1]), ps.first[pair]) \in store.saved.operating

\* an N-CSR pass that stored a key from its first fact set and skipped a later
\* fact set of the same key that held other data
C2_WitnessNcsr ==
    /\ np.pc = "done" /\ np.result
    /\ \E key \in np.skipped :
          /\ key \in np.satisfied
          /\ np.writes[key] = 1
          /\ PerformanceRow(NcsrEtfOf(np.cik, key[1]), key[2], np.first[key].filing_date,
                            np.first[key].facts) \in store.saved.performance

\* the entries of by_name whose key is exactly the table's lower-cased pair
ExactEntries ==
    {i \in 1..Len(mt.mapping.by_name) :
        mt.mapping.by_name[i][1] = <<Lower(mt.fund_name), Lower(mt.class_name)>>}

\* C3 (as specified): the reconciler tries an exact match on the lower-cased (fund
\* name, class label) pair first: when the mapping has an entry with exactly that
\* key, the entry's class id is the result, whatever else matches by substring.
C3_ExactFirst ==
    (mt.pc = "done" /\ ExactEntries # {}) =>
        \E i \in ExactEntries : mt.matched_class_id = mt.mapping.by_name[i][2]

-----------------------------------------------------------------------------
(* Properties of convert_numeric_value                                     *)

\* numeric equality of two finite Decimals
NumEq(a, b) == CoefAt(a, MinOf(a.e, b.e)) = CoefAt(b, MinOf(a.e, b.e))

\* d < 0
IsNegative(d) == (d.k = "inf" /\ d.s = 1) \/ (d.k = "fin" /\ d.s = 1 /\ d.c # 0)

\* an attribute that is present and not empty
Supplied(attr) == attr # PyNone /\ attr # <<>>

\* the place of each statement in the order the specification gives
ConvRank(stage) ==
    CASE stage = "enter"  -> 0
      [] stage = "format" -> 1
      [] stage = "clean"  -> 2
      [] stage = "parse"  -> 3
      [] stage = "sign"   -> 4
      [] stage = "scale"  -> 5
      [] stage = "negate" -> 6
      [] OTHER            -> 7

ConvSteps == {cv.steps[i] : i \in 1..Len(cv.steps)}

\* the element's text matches a literal of its format
ConvLiteralMatches ==
    /\ cv.el # PyNone
    /\ Supplied(cv.fmt)
    /\ \/ /\ Contains(Lower(cv.fmt), <<"n","u","m","w","o","r","d","s","e","n">>)
          /\ Lower(Strip(cv.el)) \in {<<"n","o","n","e">>, <<"n","/","a">>}
       \/ /\ Contains(Lower(cv.fmt), <<"z","e","r","o","d","a","s","h">>)
          /\ Strip(cv.el) \in {<<EmDash>>, <<"-">>, <<EnDash>>, <<>>}

\* C6: convert_numeric_value executes its steps in the order format literal,
\* strip decoration, parse, sign, scale, negate-to-positive; a format literal that
\* matches decides the result before anything is parsed; sign, scale and
\* negate-to-positive run only on a successfully parsed number.
C6_FixedOrder ==
    /\ \A i, j \in 1..Len(cv.steps) :
          i < j => ConvRank(cv.steps[i]) < ConvRank(cv.steps[j])
    /\ (cv.pc = "done" /\ ConvLiteralMatches) => cv.steps = <<"enter", "format">>
    /\ (ConvSteps \cap {"sign", "scale", "negate"} # {}) =>
          /\ {"format", "clean", "parse"} \subseteq ConvSteps
          /\ DecimalOfString(cv.clean).k # "signal"
    /\ ("scale" \in ConvSteps) => ("sign" \in ConvSteps)
    /\ ("negate" \in ConvSteps) => ("scale" \in ConvSteps)

\* a call that ran every step: parsed, negated by sign, scaled, flipped back
C6_Witness ==
    /\ cv.pc = "done"
    /\ cv.steps = <<"enter", "format", "clean", "parse", "sign", "scale", "negate", "return">>
    /\ cv.sign = <<"-">> /\ ScaleApplies(cv.scale) /\ cv.neg
    /\ cv.result.k = "fin" /\ cv.result.c # 0 /\ cv.result.s = 0

C8_NeverPartial ==
    (cv.pc = "done" /\ cv.raised = "none" /\ cv.result.k = "fin" /\ cv.result.c # 0)
    => /\ Supplied(cv.scale) => ScaleApplies(cv.scale)
       /\ Supplied(cv.sign) => cv.sign = <<"-">>

\* the value the sign and scale steps hand to the negate-to-positive step
ConvBeforeNegate == ApplyScale(ApplySign(DecimalOfString(cv.clean), cv.sign), cv.scale)

\* C9: with negate_to_positive the result is never negative: a negative value is
\* returned as its magnitude and any other value unchanged; without the flag the
\* value sign and scale produced is returned as it is.
C9_NegateToPositive ==
    (cv.pc = "done" /\ cv.raised = "none" /\ "negate" \in ConvSteps)
    => IF cv.neg
       THEN /\ ~IsNegative(cv.result)
            /\ cv.result = IF IsNegative(ConvBeforeNegate)
                           THEN [ConvBeforeNegate EXCEPT !.s = 0]
                           ELSE ConvBeforeNegate
       ELSE cv.result = ConvBeforeNegate

\* displayed "2.00" with sign "-" and scale -2 is stored as 0.0200
C9_Witness ==
    /\ cv.pc = "done"
    /\ cv.el = <<"2",".","0","0">> /\ cv.sign = <<"-">> /\ cv.scale = <<"-","2">>
    /\ cv.neg
    /\ IsNegative(ConvBeforeNegate)
    /\ cv.result = Fin(0, 200, -4)

\* C10: with a "numwordsen" format the words None and N/A, in any letter case,
\* convert to None whatever scale, sign and negate_to_positive are.
C10_WordsToNull ==
    ( /\ cv.pc = "done"
      /\ cv.el # PyNone
      /\ Supplied(cv.fmt)
      /\ Contains(Lower(cv.fmt), <<"n","u","m","w","o","r","d","s","e","n">>)
      /\ Lower(Strip(cv.el)) \in {<<"n","o","n","e">>, <<"n","/","a">>} )
    => cv.result = Null /\ cv.raised = "none"

\* "N/A" under numwordsen with a scale, a sign and negate_to_positive all set
C10_Witness ==
    /\ cv.pc = "done"
    /\ cv.el = <<"N","/","A">>
    /\ cv.fmt = <<"i","x","t","-","s","e","c",":","n","u","m","w","o","r","d","s","e","n">>
    /\ cv.scale = <<"-","2">> /\ cv.sign = <<"-">> /\ cv.neg
    /\ cv.result = Null

\* the element text is a dash: an em dash, a hyphen or an en dash
ConvDashText == cv.el # PyNone /\ Strip(cv.el) \in {<<EmDash>>, <<"-">>, <<EnDash>>}

\* the format attribute names a zero-dash format
ConvZeroDashFormat == Supplied(cv.fmt) /\ Contains(Lower(cv.fmt), <<"z","e","r","o","d","a","s","h">>)

\* C11: with a zero-dash format a dash converts to exactly 0, whatever the scale,
\* the sign and negate_to_positive are; without a zero-dash format the same dash
\* converts to null.
C11_ZeroDash ==
    (cv.pc = "done" /\ ConvDashText) =>
        /\ cv.raised = "none"
        /\ cv.result = IF ConvZeroDashFormat THEN DecZero ELSE Null

\* an em dash with a zero-dash format, a scale, a sign and negate_to_positive
\* converted to 0
C11_Witness ==
    /\ cv.pc = "done" /\ cv.el = <<EmDash>> /\ ConvZeroDashFormat
    /\ cv.scale = <<"-","2">> /\ cv.sign = <<"-">> /\ cv.neg
    /\ cv.result = DecZero

-----------------------------------------------------------------------------
(* Properties of _parse_decimal                                            *)

\* a literal that _parse_decimal parses to a finite number and that carries no
\* parenthesis and no percent sign of its own
IsPlainLiteral(x) ==
    /\ \A i \in 1..Len(x) : x[i] \notin {"(", ")", "%"}
    /\ ParseDecimal(x).k = "fin"

\* v without its first n and its last m characters
Inside(v, n, m) == SubSeq(v, n + 1, Len(v) - m)

\* the call of _parse_decimal on a text has returned
ParseDone == fn.pc = "done" /\ fn.f = "_parse_decimal" /\ fn.arg # PyNone

\* C12: for every literal x, "(x)" and "($x)" parse to -x and "x%" parses to
\* x/100, dollar signs and commas being ignored.
C12_ParenPercent ==
    ParseDone =>
        /\ (Len(fn.arg) >= 2 /\ fn.arg[1] = "(" /\ fn.arg[Len(fn.arg)] = ")"
              /\ IsPlainLiteral(Inside(fn.arg, 1, 1)))
           => /\ fn.result.k = "fin"
              /\ NumEq(DecAdd(fn.result, ParseDecimal(Inside(fn.arg, 1, 1))), DecZero)
        /\ (Len(fn.arg) >= 3 /\ SubSeq(fn.arg, 1, 2) = <<"(","$">> /\ fn.arg[Len(fn.arg)] = ")"
              /\ IsPlainLiteral(Inside(fn.arg, 2, 1)))
           => /\ fn.result.k = "fin"
              /\ NumEq(DecAdd(fn.result, ParseDecimal(Inside(fn.arg, 2, 1))), DecZero)
        /\ (Len(fn.arg) >= 1 /\ fn.arg[Len(fn.arg)] = "%"
              /\ IsPlainLiteral(Inside(fn.arg, 0, 1)))
           => /\ fn.result.k = "fin"
              /\ NumEq(DecMul(fn.result, Fin(0, 100, 0)), ParseDecimal(Inside(fn.arg, 0, 1)))

\* "($1,234.56)" parsed to -1234.56
C12_Witness ==
    /\ ParseDone /\ fn.arg = <<"(","$","1",",","2","3","4",".","5","6",")">>
    /\ fn.result = Fin(1, 123456, -2)

-----------------------------------------------------------------------------
(* Properties of the row classification                                    *)

\* the substring rule of each role
RoleRule(role, l) ==
    CASE role = "nav_end" -> Contains(l, <<"n","e","t"," ","a","s","s","e","t"," ","v","a","l","u","e">>) /\ Contains(l, <<"e","n","d">>)
      [] role = "nav_beginning" ->
            Contains(l, <<"n","e","t"," ","a","s","s","e","t"," ","v","a","l","u","e">>) /\ Contains(l, <<"b","e","g","i","n","n","i","n","g">>)
      [] role = "net_investment_income" ->
            /\ Contains(l, <<"n","e","t"," ","i","n","v","e","s","t","m","e","n","t"," ","i","n","c","o","m","e">>)
            /\ ~Contains(l, <<"r","a","t","i","o">>) /\ ~Contains(l, <<"a","v","e","r","a","g","e">>) /\ ~Contains(l, <<"d","i","v","i","d","e","n","d">>)
      [] role = "net_realized_unrealized_gain" ->
            Contains(l, <<"r","e","a","l","i","z","e","d">>) /\ Contains(l, <<"u","n","r","e","a","l","i","z","e","d">>) /\ Contains(l, <<"g","a","i","n">>)
      [] role = "total_from_operations" ->
            \/ Contains(l, <<"t","o","t","a","l"," ","f","r","o","m"," ","i","n","v","e","s","t","m","e","n","t">>)
            \/ (Contains(l, <<"t","o","t","a","l">>) /\ Contains(l, <<"i","n","v","e","s","t","m","e","n","t"," ","o","p","e","r","a","t","i","o","n","s">>))
      [] role = "equalization" -> Contains(l, <<"e","q","u","a","l","i","z","a","t","i","o","n">>) /\ ~Contains(l, <<"n","e","t">>)
      [] role = "dist_net_investment_income" ->
            /\ Contains(l, <<"d","i","v","i","d","e","n","d">>) \/ Contains(l, <<"d","i","s","t","r","i","b","u","t","i","o","n">>)
            /\ Contains(l, <<"n","e","t"," ","i","n","v","e","s","t","m","e","n","t"," ","i","n","c","o","m","e">>)
      [] role = "dist_realized_gains" ->
            /\ Contains(l, <<"d","i","s","t","r","i","b","u","t","i","o","n">>) /\ Contains(l, <<"r","e","a","l","i","z","e","d">>)
            /\ Contains(l, <<"c","a","p","i","t","a","l"," ","g","a","i","n">>)
      [] role = "dist_return_of_capital" -> Contains(l, <<"r","e","t","u","r","n"," ","o","f"," ","c","a","p","i","t","a","l">>)
      [] role = "dist_total" -> Contains(l, <<"t","o","t","a","l"," ","d","i","s","t","r","i","b","u","t","i","o","n">>)
      [] role = "total_return" -> Contains(l, <<"t","o","t","a","l"," ","r","e","t","u","r","n">>) /\ ~Contains(l, <<"r","a","t","i","o">>)
      [] role = "expense_ratio" -> Contains(l, <<"r","a","t","i","o">>) /\ Contains(l, <<"e","x","p","e","n","s","e">>)
      [] role = "portfolio_turnover" -> Contains(l, <<"p","o","r","t","f","o","l","i","o"," ","t","u","r","n","o","v","e","r">>)
      [] role = "net_assets_end" ->
            Contains(l, <<"n","e","t"," ","a","s","s","e","t","s">>) /\ Contains(l, <<"e","n","d">>) /\ Contains(l, <<"m","i","l","l","i","o","n">>)
      [] OTHER -> FALSE

\* the priority order of the rules as the specification gives it
SpecifiedOrder ==
    << "nav_end", "nav_beginning", "net_investment_income",
       "net_realized_unrealized_gain", "total_from_operations", "equalization",
       "dist_net_investment_income", "dist_realized_gains", "dist_return_of_capital",
       "dist_total", "total_return", "expense_ratio", "portfolio_turnover",
       "net_assets_end" >>

\* the role of the first rule of the order that the label satisfies
FirstRule(order, l) ==
    IF \E i \in 1..Len(order) : RoleRule(order[i], l)
    THEN order[CHOOSE i \in 1..Len(order) :
                  /\ RoleRule(order[i], l)
                  /\ \A j \in 1..(i - 1) : ~RoleRule(order[j], l)]
    ELSE "none"

ClassifyDone == fn.pc = "done" /\ fn.f = "classify"

\* C13 (as specified): a row gets at most one role, that of the first rule its
\* label satisfies in the order NAV end, NAV beginning, net investment income,
\* realized/unrealized gain, total from operations, equalization, the four
\* distribution rows, total return, expense ratio, portfolio turnover, net assets
\* at period end.
C13_PriorityOrder ==
    ClassifyDone => fn.result = FirstRule(SpecifiedOrder, RowLabel(fn.arg))

\* the label names a dividend or a distribution from net investment income
DistributionOfIncome(l) ==
    /\ Contains(l, <<"d","i","v","i","d","e","n","d">>) \/ Contains(l, <<"d","i","s","t","r","i","b","u","t","i","o","n">>)
    /\ Contains(l, <<"n","e","t"," ","i","n","v","e","s","t","m","e","n","t"," ","i","n","c","o","m","e">>)

\* C14 (as specified): a row whose label says it is a dividend or distribution
\* from net investment income is never classified as the operating
\* net-investment-income row.
C14_NoCrossMatch ==
    (ClassifyDone /\ DistributionOfIncome(RowLabel(fn.arg)))
        => fn.result # "net_investment_income"

-----------------------------------------------------------------------------
(* Properties of the header parser                                         *)

SgmlDone == fn.pc = "done" /\ fn.f = "parse_series_class_info"

\* the CLASS-CONTRACT blocks inside the SERIES blocks of a header
ClassBlocksOf(text) ==
    LET In(series_blocks) ==
            UNION { LET Of(class_blocks) ==
                            { class_blocks[j] : j \in 1..Len(class_blocks) }
                    IN  Of(FindAllBlocks(series_blocks[i], <<"<","C","L","A","S","S","-","C","O","N","T","R","A","C","T",">">>,
                                         <<"<","/","C","L","A","S","S","-","C","O","N","T","R","A","C","T",">">>, 1))
                    : i \in 1..Len(series_blocks) }
    IN  In(FindAllBlocks(text, <<"<","S","E","R","I","E","S",">">>, <<"<","/","S","E","R","I","E","S",">">>, 1))

\* the block has a line of the tag with a value that is not blank
HasField(block, tag) ==
    SearchTag(block, tag) # PyNone /\ Strip(SearchTag(block, tag)) # <<>>

DictKeys(d) == { d[i][1] : i \in 1..Len(d) }

\* C17 (as specified): a missing field costs only the entries that need it; in
\* particular every class block that has a class id and a ticker has its ticker
\* in the ticker map of the result.
C17_MissingSkipped ==
    (SgmlDone /\ fn.arg # PyNone) =>
        \A c \in ClassBlocksOf(fn.arg) :
            (HasField(c, <<"<","C","L","A","S","S","-","C","O","N","T","R","A","C","T","-","I","D",">">>)
                /\ HasField(c, <<"<","C","L","A","S","S","-","C","O","N","T","R","A","C","T","-","T","I","C","K","E","R","-","S","Y","M","B","O","L",">">>))
            => Strip(SearchTag(c, <<"<","C","L","A","S","S","-","C","O","N","T","R","A","C","T","-","T","I","C","K","E","R","-","S","Y","M","B","O","L",">">>))
                   \in DictKeys(fn.result.tickers)

-----------------------------------------------------------------------------
(* Properties of the series merge of load_etfs                             *)

\* every entry of the first map is an entry of the second
DictExtends(old, new) ==
    \A i \in 1..Len(old) : DictGet(new, old[i][1], PyNone) = old[i][2]

\* C15: while the headers of the filing types are merged in the order 24F-2NT,
\* 485BPOS, N-CSR, NPORT-P, no step changes or removes an entry of the series
\* mapping: a series id keeps its first name and the mapping only grows.
C15_FirstWins ==
    [][ (fn.f = "_process_cik" /\ fn'.f = "_process_cik")
            => /\ DictExtends(fn.series_mapping, fn'.series_mapping)
               /\ Len(fn'.series_mapping) >= Len(fn.series_mapping) ]_vars

\* S1 was mapped by the 24F-2NT header, and the 485BPOS header, which names it
\* differently, has been merged
C15_Witness ==
    /\ fn.f = "_process_cik" /\ fn.i > 2
    /\ fn.arg.docs[1] = HeaderText(SeriesText(<<"S","1">>, <<"B","o","n","d"," ","F","u","n","d">>, <<>>))
    /\ DictGet(ParseSeriesClassInfo(fn.arg.docs[2]).series, <<"S","1">>, PyNone) = <<"B","o","n","d"," ","I","n","d","e","x">>
    /\ DictGet(fn.series_mapping, <<"S","1">>, PyNone) = <<"B","o","n","d"," ","F","u","n","d">>
    /\ DictGet(fn.series_mapping, <<"S","2">>, PyNone) = <<"B","o","n","d"," ","F","u","n","d"," ","I","I">>

-----------------------------------------------------------------------------
(* Properties of the tag index                                             *)

\* the element carries the key: an iXBRL tag with that name and that context
Carries(element, key) ==
    element.tag \in IxTags /\ element.name = key[1] /\ element.contextref = key[2]

\* the keys the callers look up: a tag name and a context id that are not empty
LookupKeys(soup) ==
    { <<soup[i].name, soup[i].contextref>> :
        i \in { j \in 1..Len(soup) :
                  /\ soup[j].tag \in IxTags
                  /\ Truthy(soup[j].name) /\ Truthy(soup[j].contextref) } }

-----------------------------------------------------------------------------
(* Properties of parse_contexts                                            *)

ContextsDone == fn.pc = "done" /\ fn.f = "parse_contexts"

\* the context has no explicit member
NoDimensions(context) ==
    ~context.segment.present \/ context.segment.members = <<>>

\* the identifier is a number of at most CIK_WIDTH digits
NumericIdentifier(identifier) ==
    /\ identifier # PyNone
    /\ Strip(identifier) # <<>>
    /\ AllDigits(Strip(identifier))
    /\ Len(Strip(identifier)) <= CIK_WIDTH

\* the digits of the identifier after as many zeros as fill CIK_WIDTH places
TenDigits(identifier) ==
    LET Padded(digits) ==
            [ k \in 1..CIK_WIDTH |->
                IF k <= CIK_WIDTH - Len(digits) THEN "0"
                ELSE digits[k - (CIK_WIDTH - Len(digits))] ]
    IN  Padded(Strip(identifier))

-----------------------------------------------------------------------------
(* Properties of the rounds of the table loop                              *)

\* C19: a table that is matched to no class id, or to a class id of no ETF of
\* the filer, is dropped: its round writes nothing, adds nothing to the
\* satisfied set, raises nothing, and the loop goes on with the next table or
\* filing.
C19_DroppedSilently ==
    [][ (ps.pc = "table" /\ ps'.outcome \in {"no_match", "unknown_class"})
            => /\ store' = store
               /\ ps'.satisfied = ps.satisfied
               /\ ps'.writes = ps.writes
               /\ ps'.result = ps.result
               /\ ps'.tables_left = ps.tables_left - 1
               /\ ps'.pc = IF ps.tables_left = 1 THEN "filing" ELSE "table" ]_vars

\* after a table was stored, a table is matched to no class id, and tables of
\* the filing remain
C19_Witness ==
    /\ ps.pc = "table" /\ ps.outcome = "no_match"
    /\ ps.tables_left >= 1
    /\ ps.satisfied # {}
    /\ store.live.operating # {}
    /\ ps.result

\* a table matched to a class id of no ETF of the filer
C19_WitnessUnknown ==
    /\ ps.pc = "table" /\ ps.outcome = "unknown_class"
    /\ ps.tables_left >= 1
    /\ ps.satisfied # {}

-----------------------------------------------------------------------------
(* Properties of a failed math validation                                  *)

\* the validation was run on four finite operands and the sum misses nav_end by
\* more than 0.01
ValidationFails ==
    /\ "validate" \in TableSteps
    /\ \A f \in RequiredOperands : tp.values[f] # Null
    /\ \A d \in SumOperands : d.k = "fin"
    /\ ~WithinTolerance

\* the data has the four operands of the validation and did not pass it
FailedData(data) ==
    /\ ~data.math_validated
    /\ \A f \in RequiredOperands : data.values[f] # Null

\* C20: a failed math validation raises nothing: the parser returns the values
\* and the fiscal year end it extracted, with math_validated false, and the pass
\* stores the three rows of such a table with these values, the operating row
\* marked as not validated.
C20_SoftSignal ==
    /\ (tp.pc \in {"done", "raised"} /\ ValidationFails) =>
          /\ tp.pc = "done" /\ tp.raised = "none"
          /\ ~tp.math_validated
          /\ tp.values = ExtractValues(tp.rows, RowMap(tp.rows))
          /\ tp.fye = FiscalYearEndFrom(tp.rows, 1)
    /\ PassHolds =>
          \A pair \in ps.satisfied :
              FailedData(ps.first[pair]) =>
                  /\ \E row \in store.live.operating :
                        /\ row.etf_id = EtfOf(ps.cik, pair[1])
                        /\ row.fiscal_year_end = pair[2]
                        /\ ~row.math_validated
                        /\ \A f \in OperatingFields :
                              row.values[f] = ps.first[pair].values[f]
                  /\ \E row \in store.live.distribution :
                        /\ row.etf_id = EtfOf(ps.cik, pair[1])
                        /\ row.fiscal_year_end = pair[2]
                        /\ \A f \in DistributionFields :
                              row.values[f] = ps.first[pair].values[f]
                  /\ \E row \in store.live.ratios :
                        /\ row.etf_id = EtfOf(ps.cik, pair[1])
                        /\ row.fiscal_year_end = pair[2]
                        /\ \A f \in RatiosFields :
                              row.values[f] = ps.first[pair].values[f]

\* a pass that ended with success and saved the rows of a table whose validation
\* failed: net asset value 111.00 at the end where the sum gives 110.00
C20_Witness ==
    /\ ps.pc = "done" /\ ps.result
    /\ \E pair \in ps.satisfied :
          /\ FailedData(ps.first[pair])
          /\ ps.first[pair].values["nav_end"] = Fin(0, 11100, -2)
          /\ \E row \in store.saved.operating :
                /\ row.etf_id = EtfOf(ps.cik, pair[1])
                /\ row.fiscal_year_end = pair[2]
                /\ ~row.math_validated
                /\ row.values["nav_end"] = Fin(0, 11100, -2)

\* the parser at its return after a validation that failed
C20_WitnessTable ==
    /\ tp.pc = "done" /\ ValidationFails /\ ~tp.math_validated
    /\ tp.values["nav_end"] = Fin(0, 11007, -2)

-----------------------------------------------------------------------------
(* Properties of the upserts                                               *)

\* the table has at most one row for an ETF and fiscal year end
OnePerPair(table) ==
    \A r1 \in table, r2 \in table :
        (r1.etf_id = r2.etf_id /\ r1.fiscal_year_end = r2.fiscal_year_end) => r1 = r2

\* C21: the session's view of the database and the committed database hold at
\* most one operating, one distribution and one ratios row for an ETF and fiscal
\* year end, and the rows of a pair the pass has written are exactly the rows of
\* the data the pass parsed for it, whatever row the database had for the pair.
C21_OnePerPair ==
    /\ \A db \in {store.live, store.saved} :
          OnePerPair(db.operating) /\ OnePerPair(db.distribution) /\ OnePerPair(db.ratios)
    /\ PassHolds =>
          \A pair \in ps.satisfied :
              LET etf_id == EtfOf(ps.cik, pair[1])
              IN  /\ RowsOf(store.live.operating, etf_id, pair[2])
                        = {OperatingRow(etf_id, ps.first[pair])}
                  /\ RowsOf(store.live.distribution, etf_id, pair[2])
                        = {DistributionRow(etf_id, ps.first[pair])}
                  /\ RowsOf(store.live.ratios, etf_id, pair[2])
                        = {RatiosRow(etf_id, ps.first[pair])}

\* a pass at its commit that found a row of an earlier pass for a pair and has
\* replaced it by a row with other values
C21_Witness ==
    /\ ps.pc = "commit"
    /\ \E pair \in ps.satisfied :
          LET etf_id == EtfOf(ps.cik, pair[1])
          IN  /\ RowsOf(store.saved.operating, etf_id, pair[2]) # {}
              /\ RowsOf(store.live.operating, etf_id, pair[2])
                    = {OperatingRow(etf_id, ps.first[pair])}
              /\ RowsOf(store.saved.operating, etf_id, pair[2])
                    # RowsOf(store.live.operating, etf_id, pair[2])

-----------------------------------------------------------------------------
(* Properties of run_all                                                   *)

RunAllRuns == fn.f = "run_all"

\* the work on a CIK has ended and the next has not begun
BetweenCiks == RunAllRuns /\ fn.pc \in {"cik", "done"} /\ fn.last # "none"

\* the parsers of the list in the order nport, ncsr, prospectus, finhigh, flows
InFixedOrder(list) ==
    LET Listed(p) == InList(p, list)
    IN  SelectSeq(<<"nport", "ncsr", "prospectus", "finhigh", "flows">>, Listed)

IsPrefixOf(s, t) == Len(s) <= Len(t) /\ s = SubSeq(t, 1, Len(s))

\* C22 as stated: once the work on a CIK has ended, the parsers called for it are
\* exactly its stale parsers, in the fixed order.
C22_ExactlyStale ==
    BetweenCiks => fn.calls = InFixedOrder(fn.stale_parsers)

\* C22: the parsers called for a CIK are at every moment the first of its stale
\* parsers in the fixed order, each once; once the work on the CIK has ended they
\* are all its stale parsers, or the last one called is the one that raised.
C22_StaleInOrder ==
    RunAllRuns =>
        /\ IsPrefixOf(fn.calls, InFixedOrder(fn.stale_parsers))
        /\ BetweenCiks =>
              \/ fn.calls = InFixedOrder(fn.stale_parsers)
              \/ /\ fn.last = "failed" /\ fn.raised # "none"
                 /\ fn.calls[Len(fn.calls)] = fn.raised

\* a CIK counted as processed after three or more of its parsers were called
C22_Witness ==
    /\ BetweenCiks /\ fn.last = "processed"
    /\ Len(fn.calls) >= 3
    /\ fn.calls = InFixedOrder(fn.stale_parsers)

\* C23: the CIKs are visited in the order of the list, each once; every CIK whose
\* work has ended is counted once, as processed, skipped or failed, so that at the
\* end the three counts add up to the number of CIKs, all of them visited, also
\* after a CIK that failed.
C23_CountsAddUp ==
    RunAllRuns =>
        /\ IsPrefixOf(fn.visited, fn.ciks)
        /\ fn.pc = "cik" =>
              /\ Len(fn.visited) = fn.i - 1
              /\ fn.processed + fn.skipped + fn.failed = fn.i - 1
        /\ fn.pc = "parsers" =>
              /\ Len(fn.visited) = fn.i
              /\ fn.processed + fn.skipped + fn.failed = fn.i - 1
        /\ fn.pc = "done" =>
              /\ fn.visited = fn.ciks
              /\ fn.processed + fn.skipped + fn.failed = Len(fn.ciks)

\* the end of a run in which the first CIK failed with a parser that raised
\* before its last stale parser, and the second was processed
C23_Witness ==
    /\ RunAllRuns /\ fn.pc = "done"
    /\ fn.visited = <<"A", "B">>
    /\ fn.failed = 1 /\ fn.processed = 1 /\ fn.last = "processed"

\* C29: in a run that follows a run in which every stale parser of a CIK succeeded,
\* with SEC listing what it listed before, the CIK has no stale parser.
C29_Converges ==
    (RunAllRuns /\ fn.round = 2) =>
        \A cik \in fn.prev_clean :
            GetStaleParsers(fn.log, cik, fn.arg.sec[cik]) = <<>>

-----------------------------------------------------------------------------
(* Properties of _process_etf                                              *)

\* the investments of the report gone through so far whose CUSIP is null
NullCusipSoFar ==
    {j \in 1..(fn.i - 1) : CleanStr(fn.arg.non_derivatives[j].cusip) = PyNone}

\* C24: the holdings inserted for the ETF and report carry each non-null CUSIP at
\* most once, every investment without a CUSIP has its holding, and at the end
\* the processing log has the row of the nport parser.
C24_OnePerCusip ==
    fn.f = "_process_etf" =>
        /\ \A j1 \in 1..Len(fn.holdings), j2 \in 1..Len(fn.holdings) :
              (j1 # j2 /\ fn.holdings[j1].cusip # PyNone)
                  => fn.holdings[j1].cusip # fn.holdings[j2].cusip
        /\ Cardinality({j \in 1..Len(fn.holdings) : fn.holdings[j].cusip = PyNone})
              = Cardinality(NullCusipSoFar)
        /\ fn.pc = "done" => GetProcessingLog(fn.log, "A", "nport") # {}

-----------------------------------------------------------------------------
(* _parse_decimal and convert_numeric_value on the same text                *)

\* convert_numeric_value on an element with the text and no scale, format or sign
ConvertPlain(text) == ConvertNumericValue(text, PyNone, PyNone, PyNone, FALSE)

\* both are None, or both stand for the same number
SameNumber(a, b) == a = b \/ (a.k = "fin" /\ b.k = "fin" /\ NumEq(a, b))

\* the cell text has a percent sign, or is enclosed in parentheses once the
\* blanks around it and the percent signs are removed
PercentOrParenthesised(text) ==
    LET Enclosed(s) == Len(s) >= 1 /\ s[1] = "(" /\ s[Len(s)] = ")"
    IN  \/ \E i \in 1..Len(text) : text[i] = "%"
        \/ Enclosed(Strip(text))

\* C25 as stated: for every cell text, _parse_decimal gives the number that
\* convert_numeric_value gives for an element with that text and no scale, format
\* or sign.
C25_SamePrimitive ==
    (fn.pc = "done" /\ fn.f = "_parse_decimal") =>
        SameNumber(fn.result, ConvertPlain(fn.arg))

\* C25: for every cell text without a percent sign and not enclosed in
\* parentheses, _parse_decimal gives the number that convert_numeric_value gives
\* for an element with that text and no scale, format or sign.
C25_SameOnPlainText ==
    (fn.pc = "done" /\ fn.f = "_parse_decimal" /\ ~PercentOrParenthesised(fn.arg)) =>
        SameNumber(fn.result, ConvertPlain(fn.arg))

\* "$1,234.56" parsed to 1234.56 by both
C25_Witness ==
    /\ fn.pc = "done" /\ fn.f = "_parse_decimal"
    /\ fn.arg = <<"$","1",",","2","3","4",".","5","6">>
    /\ fn.result = Fin(0, 123456, -2)
    /\ ConvertPlain(fn.arg) = Fin(0, 123456, -2)

-----------------------------------------------------------------------------
(* Properties of the loop over the filings                                 *)

ScanRuns == fn.f = "filing_scan"

\* the filings fetched are the first of the listing, in its order, ten at most,
\* and a filing passed over has not ended the loop
ScanInOrder ==
    ScanRuns =>
        /\ \A j \in 1..Len(fn.examined) : fn.examined[j] = j - 1
        /\ Len(fn.examined) <= 10
        /\ fn.outcome = "skipped" =>
              /\ fn.pc = "loop"
              /\ fn.filing_idx = Len(fn.examined)

\* once every class id of the filer is satisfied no further filing is fetched
ScanStopsEarly ==
    (ScanRuns /\ AllSatisfied(fn.arg.needed, fn.satisfied))
        => fn'.examined = fn.examined

C26_WitnessEarly ==
    /\ ScanRuns /\ fn.pc = "done" /\ fn.outcome = "ended"
    /\ fn.arg.listed > 2
    /\ Len(fn.examined) = 2
    /\ AllSatisfied(fn.arg.needed, fn.satisfied)

-----------------------------------------------------------------------------
(* Properties of the satisfied set across passes                           *)

C27_WitnessStart ==
    /\ ps.pc = "filing" /\ ps.filing_idx = 0 /\ ps.satisfied = {}
    /\ \E r \in store.saved.operating : r.etf_id = EtfOf(ps.cik, "C1")

-----------------------------------------------------------------------------
(* Properties of the fiscal year end of a table                            *)

DateDone == fn.pc = "done" /\ fn.f = "fiscal_year_end"

\* the text holds a slash date that parses
HasParseableSlashDate(t) ==
    \E p \in 1..Len(t) :
        /\ SlashDateEnd(t, p) # 0
        /\ ParseDate(SubSeq(t, p, SlashDateEnd(t, p))) # NoDate

\* row i holds a "Year Ended <Month> <Day>" phrase and a cell of the row after it
\* holds four digits that complete the phrase to a valid date
HasCompletedYearEnded(rows, i) ==
    /\ YearEndedSearch(RowText(rows[i])) # PyNone
    /\ i + 1 <= Len(rows)
    /\ \E c \in 1..Len(rows[i + 1]) :
          \E p \in 1..(Len(Strip(rows[i + 1][c])) - 3) :
              /\ AllDigits(SubSeq(Strip(rows[i + 1][c]), p, p + 3))
              /\ ParseDate(YearEndedSearch(RowText(rows[i])) \o <<",", " ">>
                              \o SubSeq(Strip(rows[i + 1][c]), p, p + 3)) # NoDate

\* C28: the fiscal year end is not null whenever one of the first five rows holds
\* a slash date that parses, or a "Year Ended <Month> <Day>" phrase that the row
\* after it completes to a valid date; and it is null when none of the first five
\* rows holds a slash date or such a phrase, whatever the rows after the fifth
\* hold (the row after the fifth serves only to complete a phrase of the fifth).
C28_DateFound ==
    DateDone =>
        /\ (\E i \in 1..MinOf(5, Len(fn.arg)) :
               \/ HasParseableSlashDate(RowText(fn.arg[i]))
               \/ HasCompletedYearEnded(fn.arg, i))
           => fn.result # NoDate
        /\ (\A i \in 1..MinOf(5, Len(fn.arg)) :
               /\ SlashDateSearch(RowText(fn.arg[i])) = PyNone
               /\ YearEndedSearch(RowText(fn.arg[i])) = PyNone)
           => fn.result = NoDate

-----------------------------------------------------------------------------
(* Properties of the satisfied set of a prospectus pass                      *)

ProspectusRuns == fn.f = "_process_cik_prospectus"

\* the class id has a row of some kind stored in the pass
HasStored(call, class_id) == \E r \in call.stored : r.class_id = class_id

\* the k-th filing is inside the window, can be read, and holds a context of the
\* class id with a value of some kind
OffersData(call, k, class_id) ==
    LET filing == call.arg.filings[k]
    IN  /\ filing.filing_date >= call.arg.filings[1].filing_date - LOOKBACK_DAYS
        /\ filing.html = "page" /\ filing.tagged
        /\ \E n \in 1..Len(filing.contexts) :
              /\ filing.contexts[n].class_id = class_id
              /\ filing.contexts[n].kinds # {}

====
